---- MODULE Spec2Model ----
(***************************************************************************)
(* Model of the shared-drive sync backend: SyncService (syncService.js),   *)
(* FirestoreSyncService (firestoreService.js) and GoogleDriveSyncService   *)
(* (googleDriveService.js).  Documents of the mirror are functions from    *)
(* field names to values, so that a merge-write and an overwriting write   *)
(* differ as they do in the document store.                                *)
(***************************************************************************)
EXTENDS Integers, Sequences, FiniteSets, TLC

\* ------------------------------------------------------------------ bounds
DriveIds == {"D1", "D2", "D3"}
MaxCalls == 2        \* invocations of performSync / performIncrementalSync
MaxFaults == 1       \* provider or store calls that fail in one behaviour
MaxCreates == 1      \* POST /api/shared-drives requests in one behaviour

Calls == 1..MaxCalls
NULL == 0            \* JavaScript null for ids and timestamps

\* Arguments of performIncrementalSync that the callers pass.
IncrArgs == {<<>>, <<"D1", "D2">>}

\* ------------------------------------------------------------ the provider
DriveName(d) == d

\* A drive as drives.list / drives.get return it.
ApiDrive(d) == [id |-> d, name |-> DriveName(d)]

\* The folders of each drive at the provider (files.list with the folder
\* mimeType), flat, with their parent.
RemoteFolders(d) ==
    CASE d = "D1" -> <<[id |-> "F1", name |-> "A", parent |-> "D1"]>>
      [] d = "D2" -> <<[id |-> "F2", name |-> "B", parent |-> "D2"]>>
      [] OTHER -> <<>>

\* The permission entries of each drive known when the behaviour starts.
Perms0(d) ==
    CASE d = "D1" -> {[id |-> "p1", emailAddress |-> "a", role |-> "organizer"],
                      [id |-> "p2", emailAddress |-> "b", role |-> "reader"]}
      [] d = "D2" -> {[id |-> "p3", emailAddress |-> "c", role |-> "fileOrganizer"]}
      [] OTHER -> {}

\* The permission addManagerToSharedDrive creates for the requested manager.
NewPerm == [id |-> "p9", emailAddress |-> "e", role |-> "organizer"]

\* getManagersFromDrive: permissions filtered to the organizer-class roles.
OrganizerRoles == {"organizer", "fileOrganizer"}
ManagersOf(perms) == {p \in perms : p.role \in OrganizerRoles}

\* ------------------------------------------------------- document helpers
\* set(ref, data, {merge: true}): the fields of data replace those of the
\* stored document, the other stored fields stay.
MergeDoc(old, data) ==
    [f \in (DOMAIN old) \cup (DOMAIN data) |->
        IF f \in DOMAIN data THEN data[f] ELSE old[f]]

\* set(ref, data): the stored document becomes data.
OverwriteDoc(old, data) == data

EmptyDoc == [f \in {} |-> NULL]

\* A truthy created_by_frontend field.
IsFrontend(doc) == "created_by_frontend" \in DOMAIN doc /\ doc.created_by_frontend

\* A collection with document id put to doc / with document id removed.
PutDoc(coll, id, doc) ==
    [k \in (DOMAIN coll) \cup {id} |-> IF k = id THEN doc ELSE coll[k]]
DelDoc(coll, id) == [k \in (DOMAIN coll) \ {id} |-> coll[k]]

\* batch.set(ref, data, {merge: true}) at commit time.
SetMerge(coll, id, data) ==
    PutDoc(coll, id, MergeDoc(IF id \in DOMAIN coll THEN coll[id] ELSE EmptyDoc, data))

\* A set as a sequence, in a fixed order (the order of a listing or of the
\* iteration of a Set; no operation of the model depends on which order).
RECURSIVE SetToSeq(_)
SetToSeq(S) ==
    IF S = {} THEN <<>>
    ELSE LET x == CHOOSE y \in S : TRUE IN <<x>> \o SetToSeq(S \ {x})

SeqToSet(s) == {s[k] : k \in 1..Len(s)}

\* ------------------------------------------------ FirestoreSyncService
batchSize == 500

\* driveData of syncSharedDrives: the fields written for one listed drive,
\* with the frontend fields re-asserted when the snapshot has them.
DriveData(drive, existingDrives, now) ==
    LET base == [id |-> drive.id, name |-> drive.name,
                 synced_at |-> now, synced_by_backend |-> TRUE]
    IN IF drive.id \in DOMAIN existingDrives /\ IsFrontend(existingDrives[drive.id])
       THEN MergeDoc(base, [created_by_frontend |-> TRUE,
                            created_at |-> existingDrives[drive.id].created_at])
       ELSE base

\* No deletion diff: the mirror only grows.
DrivesToDeleteNone(existingDrives, drivesFromAPI) == {}

\* drivesToDelete of syncSharedDrives: in the snapshot, absent from the list.
DrivesToDelete(existingDrives, drivesFromAPI) ==
    (DOMAIN existingDrives) \ {drivesFromAPI[k].id : k \in 1..Len(drivesFromAPI)}

\* The operations syncSharedDrives adds to its batch, in order: the deletes,
\* then one merge-set per listed drive.
DriveOps(existingDrives, drivesFromAPI, now) ==
    LET dels == SetToSeq(DrivesToDelete(existingDrives, drivesFromAPI))
    IN [k \in 1..Len(dels) |-> [op |-> "delete", id |-> dels[k]]]
       \o [k \in 1..Len(drivesFromAPI) |->
              [op |-> "set", id |-> drivesFromAPI[k].id,
               data |-> DriveData(drivesFromAPI[k], existingDrives, now)]]

\* The set without {merge: true}: the document is replaced by the data.
BatchSetOverwrite(coll, id, data) == PutDoc(coll, id, data)

\* How a set of a drives or folders batch reaches the store: a merge-write.
BatchSet(coll, id, data) == SetMerge(coll, id, data)

\* batch.commit(): the operations of one batch applied together, in order.
RECURSIVE ApplyOps(_, _)
ApplyOps(coll, ops) ==
    IF ops = <<>> THEN coll
    ELSE LET o == Head(ops)
             next == IF o.op = "delete" THEN DelDoc(coll, o.id)
                     ELSE BatchSet(coll, o.id, o.data)
         IN ApplyOps(next, Tail(ops))

\* The operations that reach the store before the batch object is used again
\* after its commit: the batch is created once (line 100), committed when
\* batchCount reaches batchSize, and a committed WriteBatch refuses further
\* operations, so at most the first batchSize operations are ever committed.
Committed(ops) == SubSeq(ops, 1, IF Len(ops) > batchSize THEN batchSize ELSE Len(ops))
BatchThrows(ops) == Len(ops) > batchSize

\* folderData of syncFoldersForDrive.
FolderData(driveId, folder, existingDoc, now) ==
    LET base == [id |-> folder.id, name |-> folder.name, driveId |-> driveId,
                 parent_id |-> IF folder.parent # driveId THEN folder.parent ELSE "null",
                 synced_at |-> now, synced_by_backend |-> TRUE]
    IN IF existingDoc # EmptyDoc /\ IsFrontend(existingDoc)
       THEN MergeDoc(base, [created_by_frontend |-> TRUE,
                            created_at |-> existingDoc.created_at])
       ELSE base

\* The manager document syncManagersForDrive writes for one supplied manager
\* (email || emailAddress, permissionId || id).
ManagerDoc(driveId, driveName, m, now) ==
    [driveId |-> driveId, driveName |-> driveName,
     email |-> IF "email" \in DOMAIN m THEN m.email ELSE m.emailAddress,
     role |-> m.role,
     permissionId |-> IF "permissionId" \in DOMAIN m THEN m.permissionId ELSE m.id,
     synced_at |-> now, synced_by_backend |-> TRUE]

\* The query finds nothing: no document is deleted before the inserts.
ExistingManagersNone(mgrs, driveId) == {}

\* The query without its second where: every document of the drive.
ExistingManagersOfDrive(mgrs, driveId) ==
    {k \in DOMAIN mgrs : mgrs[k].driveId = driveId}

\* existingManagersQuery: the documents of the drive flagged synced_by_backend.
ExistingManagers(mgrs, driveId) ==
    {k \in DOMAIN mgrs : mgrs[k].driveId = driveId /\ mgrs[k].synced_by_backend}

\* The commit of the managers batch: the queried documents deleted and one new
\* document per supplied manager, under generated ids, in one batch.
ManagersCommit(mgrs, delIds, newDocs, gen) ==
    LET kept == [k \in (DOMAIN mgrs) \ delIds |-> mgrs[k]]
        added == {<<gen, d.permissionId>> : d \in newDocs}
    IN [k \in (DOMAIN kept) \cup added |->
           IF k \in added
           THEN CHOOSE d \in newDocs : d.permissionId = k[2]
           ELSE kept[k]]

\* recordSyncStart: the SyncRun document, created with status running.
SyncStartDoc(syncId, now) ==
    [sync_id |-> syncId, sync_date |-> now, status |-> "running", drives_count |-> 0,
     folders_count |-> 0, managers_count |-> 0, errors |-> <<>>]

\* syncRef.update(fields): fails on a missing document (the callers swallow
\* the failure), merges the fields otherwise.
UpdateDoc(coll, id, fields) ==
    IF id \in DOMAIN coll THEN PutDoc(coll, id, MergeDoc(coll[id], fields)) ELSE coll

\* completeSyncRecord: the fields of the final update.
CompleteFields(stats, status) ==
    [status |-> status, drives_count |-> stats.drives_count,
     folders_count |-> stats.folders_count, managers_count |-> stats.managers_count,
     errors |-> stats.errors]

\* updateSyncStatus: the fields merged into the 'current' status document.
StatusFields(status, syncId, now) ==
    LET a == [status |-> status]
        b == IF syncId # NULL THEN MergeDoc(a, [current_sync_id |-> syncId]) ELSE a
    IN IF status = "completed" \/ status = "failed"
       THEN MergeDoc(b, [last_sync |-> now, current_sync_id |-> NULL])
       ELSE b

\* saveNewSharedDrive: the drive document of a drive created by the frontend.
FrontendDriveDoc(drive, now) ==
    [id |-> drive.id, name |-> drive.name, created_by_frontend |-> TRUE,
     created_at |-> now, synced_at |-> now, synced_by_backend |-> TRUE]

\* resetStats.
ResetStats == [drives_count |-> 0, folders_count |-> 0, managers_count |-> 0,
               errors |-> <<>>]

\* ------------------------------------------------------------------ state
VARIABLES
    isRunning,      \* SyncService.isRunning
    currentSyncId,  \* SyncService.currentSyncId
    syncStats,      \* SyncService.syncStats
    run,            \* per invocation: its position and its locals
    tasks,          \* started syncFoldersForDrive / syncManagersForDrive calls
    drives,         \* mirror collection of drives: id -> document
    folders,        \* mirror collection of folders: id -> document
    managers,       \* mirror collection of managers: generated id -> document
    syncHistory,    \* SyncRun documents: sync id -> document
    syncStatus,     \* the 'current' SyncStatus document (EmptyDoc: none)
    remote,         \* the drives that exist at the provider
    remotePerms,    \* the permission entries of each drive at the provider
    fe,             \* the create-drive request of the frontend
    clock,          \* what new Date() returns
    nextUuid,       \* the next value of uuidv4()
    nextGen,        \* source of generated manager document ids
    faults,         \* failed provider / store calls so far
    creates,        \* create-drive requests so far
    bat,            \* one call of a store function that fills a batch, by operation counts
    rd,             \* one call of the remote reader (its locals and its position)
    mt              \* one call of performMaintenance / cleanupSyncHistory

vars == <<isRunning, currentSyncId, syncStats, run, tasks, drives, folders,
          managers, syncHistory, syncStatus, remote, remotePerms, fe, clock,
          nextUuid, nextGen, faults, creates, bat, rd, mt>>

mainVars == <<isRunning, currentSyncId, syncStats, run, tasks, drives, folders,
              managers, syncHistory, syncStatus, remote, remotePerms, fe, clock,
              nextUuid, nextGen, faults, creates>>
service == <<isRunning, currentSyncId, syncStats>>
mirror == <<drives, folders, managers>>
telemetry == <<syncHistory, syncStatus>>
provider == <<remote, remotePerms>>
counters == <<clock, nextUuid, nextGen>>

IdleRun ==
    [pc |-> "idle", kind |-> "none", arg |-> <<>>, id |-> NULL, list |-> <<>>,
     listed |-> FALSE, fstats |-> ResetStats, i |-> 0, ops |-> <<>>,
     status |-> "none", result |-> EmptyDoc, before |-> <<>>]

\* Documents the mirror may hold when the service starts: any set of drives,
\* written by earlier syncs, or with drive D1 and folder F1 created by the
\* frontend and a folder F9 that the provider no longer has.
BackendDrive(d) == [id |-> d, name |-> DriveName(d), synced_at |-> 0,
                    synced_by_backend |-> TRUE]
FrontendDrive(d) == MergeDoc(BackendDrive(d),
                             [created_by_frontend |-> TRUE, created_at |-> 0])
BackendFolders == [f \in {} |-> EmptyDoc]
FrontendFolders ==
    [f \in {"F1", "F9"} |->
        IF f = "F1"
        THEN [id |-> "F1", name |-> "A", driveId |-> "D1", parent_id |-> "null",
              synced_at |-> 0, synced_by_backend |-> TRUE,
              created_by_frontend |-> TRUE, created_at |-> 0]
        ELSE [id |-> "F9", name |-> "Z", driveId |-> "D1", parent_id |-> "null",
              synced_at |-> 0, synced_by_backend |-> TRUE]]
InitMirrors ==
    {<<[d \in M |-> IF fr /\ d = "D1" THEN FrontendDrive(d) ELSE BackendDrive(d)],
       IF fr THEN FrontendFolders ELSE BackendFolders>> :
        M \in SUBSET DriveIds, fr \in BOOLEAN}
\* The drives the provider may have when the service starts (D3 is created
\* later, if at all).
InitRemotes == SUBSET {"D1", "D2"}
InitManagers ==
    [k \in {<<0, "p0">>, <<0, "px">>, <<0, "p3">>} |->
        CASE k[2] = "p0" -> [driveId |-> "D1", driveName |-> "D1", email |-> "old",
                             role |-> "organizer", permissionId |-> "p0",
                             synced_at |-> 0, synced_by_backend |-> TRUE]
          [] k[2] = "px" -> [driveId |-> "D1", driveName |-> "D1", email |-> "x",
                             role |-> "organizer", permissionId |-> "px",
                             synced_at |-> 0, synced_by_backend |-> FALSE]
          [] OTHER -> [driveId |-> "D2", driveName |-> "D2", email |-> "c",
                       role |-> "fileOrganizer", permissionId |-> "p3",
                       synced_at |-> 0, synced_by_backend |-> TRUE]]

IdleBat ==
    [pc |-> "idle", kind |-> "none", nDel |-> 0, nUps |-> 0, i |-> 0,
     batchCount |-> 0, committed |-> FALSE, inBatch |-> 0, commits |-> <<>>,
     delAdded |-> 0]

\* The service after construction, over a mirror and a provider state.
InitOver(drives0, folders0, remote0) ==
    /\ isRunning = FALSE
    /\ currentSyncId = NULL
    /\ syncStats = ResetStats
    /\ run = [c \in Calls |-> IdleRun]
    /\ tasks = {}
    /\ drives = drives0
    /\ folders = folders0
    /\ managers = InitManagers
    /\ syncHistory = [k \in {} |-> EmptyDoc]
    /\ syncStatus = EmptyDoc
    /\ remote = remote0
    /\ remotePerms = [d \in DriveIds |-> Perms0(d)]
    /\ fe = [pc |-> "idle", id |-> "none", managers |-> {}]
    /\ clock = 1
    /\ nextUuid = 1
    /\ nextGen = 1
    /\ faults = 0
    /\ creates = 0

\* No call of the remote reader under way.
IdleRd == [pc |-> "idle"]
\* No maintenance call under way.
IdleMt == [pc |-> "idle"]

Init ==
    /\ \E m \in InitMirrors, r \in InitRemotes : InitOver(m[1], m[2], r)
    /\ bat = IdleBat
    /\ rd = IdleRd
    /\ mt = IdleMt

CanFail == faults < MaxFaults
\* The writes of the catch block may fail after the failure that led there.
CanFailInCatch == faults <= MaxFaults

\* ------------------------------------------------------------ SyncService
\* The failure recorded and the run going on as if nothing had been listed.
ThrowAndGoOn(c, msg) ==
    /\ syncStats' = [syncStats EXCEPT !.errors = Append(@, <<"critical", msg>>)]
    /\ run' = [run EXCEPT ![c].pc = "ssdRead"]

\* The catch block of performSync / performIncrementalSync up to its first
\* await: the message is pushed onto the error list.
Throw(c, msg) ==
    /\ syncStats' = [syncStats EXCEPT !.errors = Append(@, <<"critical", msg>>)]
    /\ run' = [run EXCEPT ![c].pc = "catchComplete"]

\* The guard placed after the assignments of lines 51-52: the rejected call
\* has already replaced the run id and the statistics.
RejectAfterReset(c) ==
    /\ run' = [run EXCEPT ![c].pc = "rejected"]
    /\ currentSyncId' = nextUuid
    /\ nextUuid' = nextUuid + 1
    /\ syncStats' = ResetStats
    /\ UNCHANGED <<isRunning, tasks, mirror, telemetry, provider, fe, clock, nextGen,
                   faults, creates, bat, rd, mt>>

\* The guard found isRunning set: the call throws and nothing else happens.
Reject(c) ==
    /\ run' = [run EXCEPT ![c].pc = "rejected"]
    /\ UNCHANGED <<service, tasks, mirror, telemetry, provider, fe, counters,
                   faults, creates, bat, rd, mt>>

\* The guard passed: lines 50-53 / 187-190.
Start(c, kind, arg) ==
    /\ isRunning' = TRUE
    /\ currentSyncId' = nextUuid
    /\ nextUuid' = nextUuid + 1
    /\ syncStats' = ResetStats
    /\ clock' = clock + 1
    /\ run' = [run EXCEPT ![c] = [IdleRun EXCEPT !.pc = "recordStart",
                                      !.kind = kind, !.arg = arg, !.id = nextUuid,
                                      !.before = <<drives, folders, managers>>]]
    /\ UNCHANGED <<tasks, mirror, telemetry, provider, fe, nextGen, faults, creates, bat, rd, mt>>

\* The guard left out: every call starts a run.
InvokeUnguarded(c, kind, arg) == Start(c, kind, arg)

\* performSync(), performIncrementalSync(driveIds): the guard and what follows
\* it up to the first await.
Invoke(c, kind, arg) ==
    IF isRunning THEN Reject(c) ELSE Start(c, kind, arg)

Call(c) ==
    /\ run[c].pc = "idle"
    /\ \A b \in Calls : b < c => run[b].pc # "idle"
    /\ \/ Invoke(c, "full", <<>>)
       \/ \E arg \in IncrArgs : Invoke(c, "incr", arg)

\* await firestoreService.recordSyncStart(this.currentSyncId)
RecordStart(c) ==
    /\ run[c].pc = "recordStart"
    /\ \/ /\ syncHistory' = PutDoc(syncHistory, currentSyncId, SyncStartDoc(currentSyncId, clock))
          /\ run' = [run EXCEPT ![c].pc = "statusRunning"]
          /\ UNCHANGED <<syncStats, faults>>
       \/ /\ CanFail
          /\ faults' = faults + 1
          /\ Throw(c, "recordSyncStart")
          /\ UNCHANGED syncHistory
    /\ UNCHANGED <<isRunning, currentSyncId, tasks, mirror, syncStatus, provider,
                   fe, counters, creates, bat, rd, mt>>

\* performIncrementalSync without its else branch: an empty id list fetches
\* nothing.
FetchScopeNoElse(kind, arg) ==
    IF kind = "full" THEN "probe"
    ELSE IF arg # <<>> THEN "incrFetch" ELSE "ssdRead"

\* What a run fetches: performSync probes the connection and calls
\* performFullSync; performIncrementalSync loops over a non-empty id list and
\* calls performFullSync for an empty one.
FetchScope(kind, arg) ==
    IF kind = "full" THEN "probe"
    ELSE IF arg # <<>> THEN "incrFetch" ELSE "list"

\* await firestoreService.updateSyncStatus('running', this.currentSyncId)
StatusRunning(c) ==
    /\ run[c].pc = "statusRunning"
    /\ \/ /\ syncStatus' = MergeDoc(syncStatus, StatusFields("running", currentSyncId, clock))
          /\ UNCHANGED faults
       \/ /\ CanFail
          /\ faults' = faults + 1
          /\ UNCHANGED syncStatus
    /\ run' = [run EXCEPT ![c].pc = FetchScope(run[c].kind, run[c].arg), ![c].i = 1]
    /\ UNCHANGED <<service, tasks, mirror, syncHistory, provider, fe, counters, creates, bat, rd, mt>>

\* const connectionTest = await googleDriveService.testConnection()
Probe(c) ==
    /\ run[c].pc = "probe"
    /\ \/ /\ run' = [run EXCEPT ![c].pc = "list"]
          /\ UNCHANGED <<syncStats, faults>>
       \/ /\ CanFail
          /\ faults' = faults + 1
          /\ Throw(c, "connectivity")
    /\ UNCHANGED <<isRunning, currentSyncId, tasks, mirror, telemetry, provider,
                   fe, counters, creates, bat, rd, mt>>

\* performFullSync: const drives = await this.getAllSharedDrives()
List(c) ==
    /\ run[c].pc = "list"
    /\ \/ LET ids == SetToSeq(remote)
              l == [k \in 1..Len(ids) |->
                      [id |-> ids[k], name |-> DriveName(ids[k]),
                       folders |-> <<>>, managers |-> <<>>]]
          IN run' = [run EXCEPT ![c].pc = "fetch", ![c].list = l, ![c].listed = TRUE,
                                ![c].i = 1,
                                ![c].fstats = [ResetStats EXCEPT !.drives_count = Len(l)]]
          /\ UNCHANGED <<syncStats, faults>>
       \/ /\ CanFail
          /\ faults' = faults + 1
          /\ Throw(c, "listDrives")
    /\ UNCHANGED <<isRunning, currentSyncId, tasks, mirror, telemetry, provider,
                   fe, counters, creates, bat, rd, mt>>

\* The per-drive loop without its try/catch: the failure of one drive reaches
\* the catch block of the run.
FetchErrorAborts(c) == Throw(c, "fetch")

\* performFullSync, the catch of the per-drive loop: the error is recorded, the
\* drive keeps empty folders and managers and the loop goes on.
FetchError(c) ==
    /\ run' = [run EXCEPT ![c].i = @ + 1,
                  ![c].fstats.errors = Append(@, <<"fetch", run[c].list[run[c].i].id>>)]
    /\ UNCHANGED syncStats

\* performFullSync, one turn of the per-drive loop: the folders and managers
\* of drive i, or on a failure an error entry and empty folders and managers.
Fetch(c) ==
    /\ run[c].pc = "fetch"
    /\ run[c].i <= Len(run[c].list)
    /\ rd.pc \in {"idle", "done", "raised"}
    /\ rd' = IF rd.pc = "idle" THEN rd ELSE [pc |-> "ready", tree |-> rd.tree]
    /\ LET i == run[c].i
           d == run[c].list[i].id
           fs == RemoteFolders(d)
           ms == SetToSeq(ManagersOf(remotePerms[d]))
       IN \/ /\ rd.pc # "raised"
             /\ run' = [run EXCEPT ![c].i = i + 1,
                           ![c].list[i].folders = fs,
                           ![c].list[i].managers = ms,
                           ![c].fstats.folders_count = @ + Len(fs),
                           ![c].fstats.managers_count = @ + Len(ms)]
             /\ UNCHANGED <<syncStats, faults>>
          \/ /\ CanFail
             /\ faults' = faults + 1
             /\ FetchError(c)
          \/ /\ rd.pc = "raised"
             /\ FetchError(c)
             /\ UNCHANGED faults
    /\ UNCHANGED <<isRunning, currentSyncId, tasks, mirror, telemetry, provider, fe,
                   counters, creates, bat, mt>>

\* performFullSync returned: performSync lines 72-75, performIncrementalSync
\* lines 227-228.
FetchDone(c) ==
    /\ run[c].pc = "fetch"
    /\ run[c].i > Len(run[c].list)
    /\ syncStats' = run[c].fstats
    /\ run' = [run EXCEPT ![c].pc = IF run[c].kind = "full" THEN "progress" ELSE "ssdRead",
                          ![c].i = 0]
    /\ UNCHANGED <<isRunning, currentSyncId, tasks, mirror, telemetry, provider,
                   fe, counters, faults, creates, bat, rd, mt>>

\* The loop over driveIds without its try/catch: the failure of one drive
\* reaches the catch block of the run.
IncrFetchErrorAborts(c, d, pc2) == Throw(c, "fetch")

\* performIncrementalSync, the catch of the loop over driveIds: the error is
\* pushed onto the error list and the loop goes on with the next id.
IncrFetchError(c, d, pc2) ==
    /\ run' = [run EXCEPT ![c].i = @ + 1, ![c].pc = pc2]
    /\ syncStats' = [syncStats EXCEPT !.errors = Append(@, <<"fetch", d>>)]

\* performIncrementalSync, one turn of the loop over driveIds.
IncrFetch(c) ==
    /\ run[c].pc = "incrFetch"
    /\ LET i == run[c].i
           d == run[c].arg[i]
           fs == RemoteFolders(d)
           ms == SetToSeq(ManagersOf(remotePerms[d]))
           pc2 == IF i = Len(run[c].arg) THEN "ssdRead" ELSE "incrFetch"
       IN \/ /\ d \in remote
             /\ run' = [run EXCEPT ![c].i = i + 1, ![c].pc = pc2,
                           ![c].list = Append(@, [id |-> d, name |-> DriveName(d),
                                                  folders |-> fs, managers |-> ms])]
             /\ syncStats' = [syncStats EXCEPT !.drives_count = @ + 1,
                                 !.folders_count = @ + Len(fs),
                                 !.managers_count = @ + Len(ms)]
             /\ UNCHANGED faults
          \/ /\ d \notin remote \/ CanFail
             /\ faults' = IF d \in remote THEN faults + 1 ELSE faults
             /\ IncrFetchError(c, d, pc2)
    /\ UNCHANGED <<isRunning, currentSyncId, tasks, mirror, telemetry, provider,
                   fe, counters, creates, bat, rd, mt>>

\* updateSyncProgress without its own catch: the failure of the write reaches
\* the catch block of the run.
ProgressRethrows(c) == Throw(c, "updateSyncProgress")

\* The write of updateSyncProgress failed: its catch logs the error and the
\* call returns normally.
ProgressFailed(c) ==
    /\ run' = [run EXCEPT ![c].pc = "ssdRead"]
    /\ UNCHANGED syncStats

\* await firestoreService.updateSyncProgress(id, {drives_count, status})
Progress(c) ==
    /\ run[c].pc = "progress"
    /\ \/ /\ syncHistory' = UpdateDoc(syncHistory, currentSyncId,
                               [drives_count |-> syncStats.drives_count,
                                status |-> "syncing_to_firestore"])
          /\ run' = [run EXCEPT ![c].pc = "ssdRead"]
          /\ UNCHANGED <<syncStats, faults>>
       \/ /\ CanFail
          /\ faults' = faults + 1
          /\ ProgressFailed(c)
          /\ UNCHANGED syncHistory
    /\ UNCHANGED <<isRunning, currentSyncId, tasks, mirror, syncStatus, provider, fe,
                   counters, creates, bat, rd, mt>>

\* The run record when the per-drive loop of syncToFirestore moves to index i.
NextApply(r, i) ==
    IF i > Len(r.list) THEN [r EXCEPT !.pc = "complete", !.i = 0, !.ops = <<>>]
    ELSE [r EXCEPT !.pc = "apply", !.i = i, !.ops = <<>>]

\* The failure of syncSharedDrives handled like that of one drive: an error
\* entry, and the per-drive loop starts.
DriveDiffFailedGoesOn(c) ==
    /\ syncStats' = [syncStats EXCEPT !.errors = Append(@, <<"apply", "drives">>)]
    /\ run' = [run EXCEPT ![c] = NextApply(run[c], 1)]

\* syncSharedDrives failed: its catch and the catch of syncToFirestore
\* rethrow, up to the catch block of the run.
DriveDiffFailed(c) == Throw(c, "syncSharedDrives")

\* syncSharedDrives up to its commit: the snapshot of the drives collection is
\* read and the batch is filled from it.
SSDRead(c) ==
    /\ run[c].pc = "ssdRead"
    /\ \/ LET ops == DriveOps(drives, run[c].list, clock)
          IN run' = [run EXCEPT ![c] =
                        IF ops = <<>> THEN NextApply(run[c], 1)
                        ELSE [run[c] EXCEPT !.pc = "ssdCommit", !.ops = ops]]
          /\ UNCHANGED <<syncStats, faults>>
       \/ /\ CanFail
          /\ faults' = faults + 1
          /\ DriveDiffFailed(c)
    /\ UNCHANGED <<isRunning, currentSyncId, tasks, mirror, telemetry, provider,
                   fe, counters, creates, bat, rd, mt>>

\* A drive diff whose deletes take the records of the drive with them.
DriveDiffCascades(coll, ops) ==
    [k \in {j \in DOMAIN coll :
               \A n \in 1..Len(ops) :
                  ~(ops[n].op = "delete" /\ ops[n].id = coll[j].driveId)} |-> coll[k]]

\* syncSharedDrives, lines 104-116: batch.delete(driveRef) names a document
\* of the drives collection and nothing else; the folders and the managers
\* collection (coll) are as they were.
DriveDiffKeeps(coll, ops) == coll

\* syncSharedDrives: await batch.commit()
SSDCommit(c) ==
    /\ run[c].pc = "ssdCommit"
    /\ \/ /\ drives' = ApplyOps(drives, Committed(run[c].ops))
          /\ folders' = DriveDiffKeeps(folders, Committed(run[c].ops))
          /\ managers' = DriveDiffKeeps(managers, Committed(run[c].ops))
          /\ IF BatchThrows(run[c].ops)
             THEN DriveDiffFailed(c)
             ELSE /\ run' = [run EXCEPT ![c] = NextApply(run[c], 1)]
                  /\ UNCHANGED syncStats
          /\ UNCHANGED faults
       \/ /\ CanFail
          /\ faults' = faults + 1
          /\ DriveDiffFailed(c)
          /\ UNCHANGED <<drives, folders, managers>>
    /\ UNCHANGED <<isRunning, currentSyncId, tasks, telemetry,
                   provider, fe, counters, creates, bat, rd, mt>>

\* A started syncFoldersForDrive(driveId, foldersFromAPI): with no folder it
\* returns without an await.
FolderTask(c, i, driveId, foldersFromAPI) ==
    [call |-> c, i |-> i, kind |-> "folders", drive |-> driveId, name |-> "",
     items |-> foldersFromAPI, k |-> 1, dels |-> {}, ops |-> <<>>,
     st |-> IF foldersFromAPI = <<>> THEN "done" ELSE "read", awaited |-> TRUE]

\* A started syncManagersForDrive(driveId, driveName, managersFromAPI).
ManagerTask(c, i, driveId, driveName, managersFromAPI, awaited) ==
    [call |-> c, i |-> i, kind |-> "managers", drive |-> driveId, name |-> driveName,
     items |-> managersFromAPI, k |-> 1, dels |-> {}, ops |-> <<>>,
     st |-> "query", awaited |-> awaited]

\* syncToFirestore: Promise.all([syncFoldersForDrive, syncManagersForDrive])
\* is started for drive i.
ApplyStart(c) ==
    /\ run[c].pc = "apply"
    /\ LET i == run[c].i
           drive == run[c].list[i]
       IN tasks' = tasks \cup {FolderTask(c, i, drive.id, drive.folders),
                               ManagerTask(c, i, drive.id, drive.name, drive.managers, TRUE)}
    /\ run' = [run EXCEPT ![c].pc = "applyWait"]
    /\ UNCHANGED <<service, mirror, telemetry, provider, fe, counters, faults, creates, bat, rd, mt>>

\* A task that took a step: it stays while its caller awaits it or while it
\* still has steps to take.
Settle(t, t2) ==
    IF t2.st \in {"done", "failed"} /\ ~t2.awaited
    THEN tasks \ {t}
    ELSE (tasks \ {t}) \cup {t2}

\* syncFoldersForDrive: const existingDoc = await folderRef.get(), then the
\* merge-set of the folder is added to the batch.
FolderRead(t) ==
    /\ t.kind = "folders" /\ t.st = "read"
    /\ \/ LET f == t.items[t.k]
              existingDoc == IF f.id \in DOMAIN folders THEN folders[f.id] ELSE EmptyDoc
              op == [op |-> "set", id |-> f.id,
                     data |-> FolderData(t.drive, f, existingDoc, clock)]
          IN tasks' = Settle(t, [t EXCEPT !.ops = Append(@, op), !.k = @ + 1,
                                    !.st = IF t.k = Len(t.items) THEN "commit" ELSE "read"])
          /\ UNCHANGED faults
       \/ /\ CanFail
          /\ faults' = faults + 1
          /\ tasks' = Settle(t, [t EXCEPT !.st = "failed"])
    /\ UNCHANGED <<service, run, mirror, telemetry, provider, fe, counters, creates, bat, rd, mt>>

\* The commit together with the deletion of the folder records of the drive
\* that are missing from the fetched set.
FoldersCommitPruned(coll, t) ==
    LET after == ApplyOps(coll, Committed(t.ops))
        obsolete == {f \in DOMAIN after :
                        /\ after[f].driveId = t.drive
                        /\ f \notin {t.items[k].id : k \in 1..Len(t.items)}}
    IN [f \in (DOMAIN after) \ obsolete |-> after[f]]

\* The folders collection after the commit of the batch of merge-sets.
FoldersCommit(coll, t) == ApplyOps(coll, Committed(t.ops))

\* syncFoldersForDrive: await batch.commit()
FolderCommit(t) ==
    /\ t.kind = "folders" /\ t.st = "commit"
    /\ \/ /\ folders' = FoldersCommit(folders, t)
          /\ tasks' = Settle(t, [t EXCEPT !.st = IF BatchThrows(t.ops) THEN "failed"
                                                 ELSE "done"])
          /\ UNCHANGED faults
       \/ /\ CanFail
          /\ faults' = faults + 1
          /\ tasks' = Settle(t, [t EXCEPT !.st = "failed"])
          /\ UNCHANGED folders
    /\ UNCHANGED <<service, run, drives, managers, telemetry, provider, fe, counters,
                   creates, bat, rd, mt>>

\* syncManagersForDrive: const existingSnapshot = await existingManagersQuery.get(),
\* then the deletes and the new documents are added to the batch.
ManagerQuery(t) ==
    /\ t.kind = "managers" /\ t.st = "query"
    /\ \/ /\ tasks' = Settle(t, [t EXCEPT !.st = "commit",
                                    !.dels = ExistingManagers(managers, t.drive),
                                    !.ops = [k \in 1..Len(t.items) |->
                                               ManagerDoc(t.drive, t.name, t.items[k], clock)]])
          /\ UNCHANGED faults
       \/ /\ CanFail
          /\ faults' = faults + 1
          /\ tasks' = Settle(t, [t EXCEPT !.st = "failed"])
    /\ UNCHANGED <<service, run, mirror, telemetry, provider, fe, counters, creates, bat, rd, mt>>

\* syncManagersForDrive: await batch.commit()
ManagerCommit(t) ==
    /\ t.kind = "managers" /\ t.st = "commit"
    /\ \/ /\ managers' = ManagersCommit(managers, t.dels, SeqToSet(t.ops), nextGen)
          /\ nextGen' = nextGen + 1
          /\ tasks' = Settle(t, [t EXCEPT !.st = "done"])
          /\ UNCHANGED faults
       \/ /\ CanFail
          /\ faults' = faults + 1
          /\ tasks' = Settle(t, [t EXCEPT !.st = "failed"])
          /\ UNCHANGED <<managers, nextGen>>
    /\ UNCHANGED <<service, run, drives, folders, telemetry, provider, fe, clock,
                   nextUuid, creates, bat, rd, mt>>

\* The tasks Promise.all of drive i of invocation c waits for.
Awaited(c) == {t \in tasks : t.call = c /\ t.i = run[c].i /\ t.awaited}

\* Promise.all fulfilled: both tasks are done.
ApplyJoin(c) ==
    /\ run[c].pc = "applyWait"
    /\ \A t \in Awaited(c) : t.st = "done"
    /\ tasks' = tasks \ Awaited(c)
    /\ run' = [run EXCEPT ![c].pc = "applyProgress"]
    /\ UNCHANGED <<service, mirror, telemetry, provider, fe, counters, faults, creates, bat, rd, mt>>

\* The per-drive loop of syncToFirestore without its try/catch: the failure
\* of one drive reaches the catch block of the run.
ApplyErrorAborts(c) == Throw(c, "apply")

\* syncToFirestore, the catch of the per-drive loop: the error is pushed onto
\* the error list and the loop goes on with the next drive.
ApplyError(c) ==
    /\ syncStats' = [syncStats EXCEPT
                        !.errors = Append(@, <<"apply", run[c].list[run[c].i].id>>)]
    /\ run' = [run EXCEPT ![c] = NextApply(run[c], run[c].i + 1)]

\* Promise.all rejected: one task failed; the catch of the loop records the
\* error and the loop goes on, whatever the other task is doing.
ApplyCatch(c) ==
    /\ run[c].pc = "applyWait"
    /\ \E t \in Awaited(c) : t.st = "failed"
    /\ tasks' = (tasks \ Awaited(c)) \cup
                {[t EXCEPT !.awaited = FALSE] :
                    t \in {u \in Awaited(c) : u.st \notin {"done", "failed"}}}
    /\ ApplyError(c)
    /\ UNCHANGED <<isRunning, currentSyncId, mirror, telemetry, provider, fe, counters,
                   faults, creates, bat, rd, mt>>

\* await firestoreService.updateSyncProgress(id, {current_drive, ...})
ApplyProgress(c) ==
    /\ run[c].pc = "applyProgress"
    /\ \/ /\ syncHistory' = UpdateDoc(syncHistory, currentSyncId,
                               [current_drive |-> run[c].i])
          /\ UNCHANGED faults
       \/ /\ CanFail
          /\ faults' = faults + 1
          /\ UNCHANGED syncHistory
    /\ run' = [run EXCEPT ![c] = NextApply(run[c], run[c].i + 1)]
    /\ UNCHANGED <<service, tasks, mirror, syncStatus, provider, fe, counters, creates, bat, rd, mt>>

\* The status without the test of the error list.
TerminalStatusCompleted(errors) == "completed"

\* The terminal status of a run that reached the end of the try block.
TerminalStatus(errors) ==
    IF Len(errors) > 0 THEN "completed_with_errors" ELSE "completed"

\* The release written at the end of the try block only: a failed run keeps
\* the guard.
FinallyOnSuccess(status) ==
    IF status = "failed"
    THEN UNCHANGED <<isRunning, currentSyncId>>
    ELSE isRunning' = FALSE /\ currentSyncId' = NULL

\* The finally block: the guard is released.
Finally(status) ==
    /\ isRunning' = FALSE
    /\ currentSyncId' = NULL

\* The object a run returns.
Result(success, status) ==
    [success |-> success, sync_id |-> currentSyncId, stats |-> syncStats,
     status |-> status]

\* await firestoreService.completeSyncRecord(id, this.syncStats, status)
Complete(c) ==
    /\ run[c].pc = "complete"
    /\ LET status == TerminalStatus(syncStats.errors)
       IN /\ \/ /\ syncHistory' = UpdateDoc(syncHistory, currentSyncId,
                                     CompleteFields(syncStats, status))
                /\ UNCHANGED faults
             \/ /\ CanFail
                /\ faults' = faults + 1
                /\ UNCHANGED syncHistory
          /\ run' = [run EXCEPT ![c].pc = "statusFinal", ![c].status = status]
    /\ UNCHANGED <<service, tasks, mirror, syncStatus, provider, fe, counters, creates, bat, rd, mt>>

\* await firestoreService.updateSyncStatus(status), the return of the result
\* and the finally block.
StatusFinal(c) ==
    /\ run[c].pc = "statusFinal"
    /\ \/ /\ syncStatus' = MergeDoc(syncStatus, StatusFields(run[c].status, NULL, clock))
          /\ UNCHANGED faults
       \/ /\ CanFail
          /\ faults' = faults + 1
          /\ UNCHANGED syncStatus
    /\ run' = [run EXCEPT ![c].pc = "returned",
                          ![c].result = Result(TRUE, run[c].status)]
    /\ Finally(run[c].status)
    /\ UNCHANGED <<syncStats, tasks, mirror, syncHistory, provider, fe, counters, creates, bat, rd, mt>>

\* The catch block goes on to its second write.
CatchGoesOn(c) ==
    /\ run' = [run EXCEPT ![c].pc = "catchStatus", ![c].status = "failed"]
    /\ UNCHANGED <<isRunning, currentSyncId>>

\* completeSyncRecord without its own catch: the failure of the write leaves
\* the catch block of the run, through finally, as a rejection of the call.
CompleteRecordRethrows(c) ==
    /\ run' = [run EXCEPT ![c].pc = "threw", ![c].status = "failed"]
    /\ Finally("failed")

\* The write of completeSyncRecord failed: its catch logs the error and the
\* call returns normally.
CompleteRecordFailed(c) == CatchGoesOn(c)

\* catch: await firestoreService.completeSyncRecord(id, this.syncStats, 'failed')
CatchComplete(c) ==
    /\ run[c].pc = "catchComplete"
    /\ \/ /\ syncHistory' = UpdateDoc(syncHistory, currentSyncId,
                               CompleteFields(syncStats, "failed"))
          /\ CatchGoesOn(c)
          /\ UNCHANGED faults
       \/ /\ CanFailInCatch
          /\ faults' = faults + 1
          /\ CompleteRecordFailed(c)
          /\ UNCHANGED syncHistory
    /\ UNCHANGED <<syncStats, tasks, mirror, syncStatus, provider, fe, counters, creates,
                   bat, rd, mt>>

\* catch: await firestoreService.updateSyncStatus('failed'), the return of
\* the result and the finally block.
CatchStatus(c) ==
    /\ run[c].pc = "catchStatus"
    /\ \/ /\ syncStatus' = MergeDoc(syncStatus, StatusFields("failed", NULL, clock))
          /\ UNCHANGED faults
       \/ /\ CanFailInCatch
          /\ faults' = faults + 1
          /\ UNCHANGED syncStatus
    /\ run' = [run EXCEPT ![c].pc = "returned",
                          ![c].result = Result(FALSE, "failed")]
    /\ Finally("failed")
    /\ UNCHANGED <<syncStats, tasks, mirror, syncHistory, provider, fe, counters, creates, bat, rd, mt>>

\* ------------------------------------------------- POST /api/shared-drives
\* The drive ids the provider or the mirror has records of.
KnownIds ==
    remote \cup DOMAIN drives \cup {managers[k].driveId : k \in DOMAIN managers}
           \cup {folders[f].driveId : f \in DOMAIN folders}

\* createSharedDrive: the drive is created at the provider under a new id.
FECreate ==
    /\ fe.pc = "idle"
    /\ creates < MaxCreates
    /\ \E d \in DriveIds \ KnownIds, withManager \in BOOLEAN :
          /\ remote' = remote \cup {d}
          /\ remotePerms' = [remotePerms EXCEPT ![d] = {}]
          /\ fe' = [pc |-> IF withManager THEN "addManager" ELSE "save", id |-> d,
                    managers |-> {}]
    /\ creates' = creates + 1
    /\ UNCHANGED <<service, run, tasks, mirror, telemetry, counters, faults, bat, rd, mt>>

\* createSharedDrive: addManagerToSharedDrive for the requested manager.
FEAddManager ==
    /\ fe.pc = "addManager"
    /\ remotePerms' = [remotePerms EXCEPT ![fe.id] = @ \cup {NewPerm}]
    /\ fe' = [fe EXCEPT !.pc = "save",
                        !.managers = {[email |-> NewPerm.emailAddress,
                                       role |-> "organizer",
                                       permissionId |-> NewPerm.id]}]
    /\ UNCHANGED <<service, run, tasks, mirror, telemetry, remote, counters, faults,
                   creates, bat, rd, mt>>

\* saveNewSharedDrive: await driveRef.set(firestoreData), then
\* syncManagersForDrive is started when managers were added.
FESave ==
    /\ fe.pc = "save"
    /\ drives' = PutDoc(drives, fe.id, OverwriteDoc(EmptyDoc,
                            FrontendDriveDoc(ApiDrive(fe.id), clock + 1)))
    /\ clock' = clock + 1
    /\ tasks' = IF fe.managers # {}
                THEN tasks \cup {ManagerTask(0, creates, fe.id, DriveName(fe.id),
                                             SetToSeq(fe.managers), FALSE)}
                ELSE tasks
    /\ fe' = [pc |-> "idle", id |-> "none", managers |-> {}]
    /\ UNCHANGED <<service, run, folders, managers, telemetry, provider, nextUuid,
                   nextGen, faults, creates, bat, rd, mt>>

\* ------------------------------------------------------------ specification
\* The steps of invocation c.
RunStep(c) ==
    \/ Call(c)
    \/ RecordStart(c)
    \/ StatusRunning(c)
    \/ Probe(c)
    \/ List(c)
    \/ Fetch(c)
    \/ FetchDone(c)
    \/ IncrFetch(c)
    \/ Progress(c)
    \/ SSDRead(c)
    \/ SSDCommit(c)
    \/ ApplyStart(c)
    \/ ApplyJoin(c)
    \/ ApplyCatch(c)
    \/ ApplyProgress(c)
    \/ Complete(c)
    \/ StatusFinal(c)
    \/ CatchComplete(c)
    \/ CatchStatus(c)

\* The steps of the started store calls.
TaskStep(t) ==
    \/ FolderRead(t)
    \/ FolderCommit(t)
    \/ ManagerQuery(t)
    \/ ManagerCommit(t)

\* The sync service alone: the callers of performSync and
\* performIncrementalSync are the only writers of the mirror.
Next ==
    \/ \E c \in Calls : RunStep(c)
    \/ \E t \in tasks : TaskStep(t)

Spec == Init /\ [][Next]_vars

\* The event loop runs every continuation that is ready.
SpecLive == Spec /\ WF_vars(Next)

\* One sync invocation and the create-drive route of the frontend.
NextCreate ==
    \/ RunStep(1)
    \/ \E t \in tasks : TaskStep(t)
    \/ FECreate
    \/ FEAddManager
    \/ FESave

SpecCreate == Init /\ [][NextCreate]_vars

\* --------------------------------------- the batch loops, by operation counts
\* syncSharedDrives (nDel deletes, then nUps merge-sets) and
\* syncFoldersForDrive (nUps merge-sets) fill one WriteBatch, created once
\* before the loops; the counts stand for ids that are pairwise distinct.
MaxExtra == 2
OpCounts == {0, 1, batchSize - 1, batchSize, batchSize + 1, batchSize + MaxExtra}

InitBatch ==
    /\ InitOver([d \in {} |-> EmptyDoc], BackendFolders, {})
    /\ \E nd \in OpCounts, nu \in OpCounts, kind \in {"drives", "folders"} :
          /\ kind = "folders" => nd = 0
          /\ bat = [IdleBat EXCEPT !.pc = IF kind = "drives" THEN "del" ELSE "ups",
                                   !.kind = kind, !.nDel = nd, !.nUps = nu, !.i = 1]
    /\ rd = IdleRd
    /\ mt = IdleMt

\* The number of items of the loop the call is in.
LoopSize == IF bat.pc = "del" THEN bat.nDel ELSE bat.nUps

\* batch.delete(ref) / batch.set(ref, data, {merge: true}); batchCount++.
\* A WriteBatch that was committed throws on a further operation.
BatchAdd ==
    /\ bat.pc \in {"del", "ups"}
    /\ bat.i <= LoopSize
    /\ bat' = IF bat.committed
              THEN [bat EXCEPT !.pc = "threw"]
              ELSE [bat EXCEPT !.inBatch = @ + 1, !.batchCount = @ + 1, !.i = @ + 1,
                               !.delAdded = IF bat.pc = "del" THEN @ + 1 ELSE @,
                               !.pc = IF bat.batchCount + 1 >= batchSize
                                      THEN (IF bat.pc = "del" THEN "delCommit"
                                            ELSE "upsCommit")
                                      ELSE @]
    /\ UNCHANGED <<mainVars, rd, mt>>

\* if (batchCount >= batchSize) { await batch.commit(); batchCount = 0; }
BatchFlush ==
    /\ bat.pc \in {"delCommit", "upsCommit"}
    /\ bat' = [bat EXCEPT !.commits = Append(@, bat.inBatch), !.committed = TRUE,
                          !.batchCount = 0,
                          !.pc = IF bat.pc = "delCommit" THEN "del" ELSE "ups"]
    /\ UNCHANGED <<mainVars, rd, mt>>

\* The end of a loop.
BatchLoopEnd ==
    /\ bat.pc \in {"del", "ups"}
    /\ bat.i > LoopSize
    /\ bat' = [bat EXCEPT !.pc = IF bat.pc = "del" THEN "ups" ELSE "final", !.i = 1]
    /\ UNCHANGED <<mainVars, rd, mt>>

\* if (batchCount > 0) { await batch.commit(); } and the return.
BatchFinal ==
    /\ bat.pc = "final"
    /\ bat' = IF bat.batchCount > 0
              THEN [bat EXCEPT !.commits = Append(@, bat.inBatch), !.committed = TRUE,
                               !.pc = "returned"]
              ELSE [bat EXCEPT !.pc = "returned"]
    /\ UNCHANGED <<mainVars, rd, mt>>

NextBatch == BatchAdd \/ BatchFlush \/ BatchLoopEnd \/ BatchFinal

SpecBatch == InitBatch /\ [][NextBatch]_vars

\* ------------------- the single batches, by operation counts
\* syncManagersForDrive (nDel documents found by the query, nUps managers
\* supplied) and cleanupSyncHistory (nDel records beyond the offset) put all
\* their operations into one WriteBatch and commit it once.
InitOneBatch ==
    /\ InitOver([d \in {} |-> EmptyDoc], BackendFolders, {})
    /\ \E nd \in OpCounts, nu \in OpCounts, kind \in {"managers", "cleanup"} :
          /\ kind = "cleanup" => nu = 0
          /\ bat = [IdleBat EXCEPT !.pc = "query", !.kind = kind, !.nDel = nd, !.nUps = nu]
    /\ rd = IdleRd
    /\ mt = IdleMt

\* await existingManagersQuery.get() / await historyRef.get(), then the
\* forEach loops that fill the batch: one delete per document found and, for
\* the managers, one set per supplied manager. cleanupSyncHistory returns 0
\* on an empty snapshot and on a failure; syncManagersForDrive rethrows.
OneBatchQuery ==
    /\ bat.pc = "query"
    /\ \/ bat' = IF bat.kind = "cleanup" /\ bat.nDel = 0
                 THEN [bat EXCEPT !.pc = "returned"]
                 ELSE [bat EXCEPT !.pc = "commit", !.delAdded = bat.nDel,
                                  !.inBatch = bat.nDel + bat.nUps]
       \/ bat' = [bat EXCEPT !.pc = IF bat.kind = "cleanup" THEN "returned" ELSE "threw"]
    /\ UNCHANGED <<mainVars, rd, mt>>

\* await batch.commit(): the batch is handed to the store with all its
\* operations; the store applies it or fails.
OneBatchCommit ==
    /\ bat.pc = "commit"
    /\ \/ bat' = [bat EXCEPT !.commits = Append(@, bat.inBatch), !.committed = TRUE,
                              !.pc = "returned"]
       \/ bat' = [bat EXCEPT !.commits = Append(@, bat.inBatch),
                              !.pc = IF bat.kind = "cleanup" THEN "returned" ELSE "threw"]
    /\ UNCHANGED <<mainVars, rd, mt>>

NextOneBatch == OneBatchQuery \/ OneBatchCommit

SpecOneBatch == InitOneBatch /\ [][NextOneBatch]_vars

\* ------------------------- GoogleDriveSyncService.calculateFolderPaths
\* The folders handed to calculateFolderPaths(folders, driveId): up to
\* MaxFolders records over FolderIds, in any order, a record repeated or not,
\* each with a parent that is the drive, absent, or any folder id.
MaxFolders == 3
FolderIds == {"A", "B", "C"}
DriveRoot == "D1"
NoParent == "none"
FolderInputs ==
    [id : FolderIds, parent : FolderIds \cup {DriveRoot, NoParent}]
FolderLists ==
    UNION {[1..n -> FolderInputs] : n \in 0..MaxFolders}

\* folder.name of a listed folder.
FolderName(id) == id

\* full_path: null, and paths as the sequence of their '/' and names.
NoPath == <<>>
Slash == <<"/">>
\* `/${folder.name}`
RootPath(name) == <<"/", name>>
\* The template without its separator.
JoinPathNoSlash(parentPath, name) == parentPath \o <<name>>

\* `${parentPath}/${folder.name}`
JoinPath(parentPath, name) == parentPath \o <<"/", name>>

\* The guard kept out: a folder met again on the walk is walked again.
RevisitedNever(frame) == FALSE

\* visited.has(folderId)
Revisited(frame) == frame.id \in frame.visited

\* folderMap after the first forEach: the last record of each id.
FolderMapOf(list) ==
    [id \in {list[k].id : k \in 1..Len(list)} |->
        LET last == CHOOSE k \in 1..Len(list) :
                        /\ list[k].id = id
                        /\ \A j \in 1..Len(list) : list[j].id = id => j <= k
        IN [id |-> id, name |-> FolderName(id), parent |-> list[last].parent,
            full_path |-> NoPath]]

\* A list in place of the map: one entry per record.
KeyOrderRepeats(list, seen) == [k \in 1..Len(list) |-> list[k].id]

\* The keys of folderMap in insertion order: each id at its first record.
RECURSIVE KeyOrder(_, _)
KeyOrder(list, seen) ==
    IF list = <<>> THEN <<>>
    ELSE IF Head(list).id \in seen THEN KeyOrder(Tail(list), seen)
    ELSE <<Head(list).id>> \o KeyOrder(Tail(list), seen \cup {Head(list).id})

InitPaths ==
    /\ InitOver([d \in {} |-> EmptyDoc], BackendFolders, {})
    /\ bat = IdleBat
    /\ mt = IdleMt
    /\ \E list \in FolderLists :
          rd = [pc |-> "map", folders |-> list, map |-> FolderMapOf(<<>>),
                order |-> <<>>, k |-> 1, stack |-> <<>>, ret |-> NoPath, out |-> <<>>]

\* folders.forEach(folder => folderMap.set(folder.id, {...folder, full_path: null}))
PathsMap ==
    /\ rd.pc = "map"
    /\ rd' = [rd EXCEPT !.pc = "each", !.map = FolderMapOf(rd.folders),
                        !.order = KeyOrder(rd.folders, {})]
    /\ UNCHANGED <<mainVars, bat, mt>>

\* folders.forEach(folder => calculatePath(folder.id)): the call for folder k.
PathsEach ==
    /\ rd.pc = "each"
    /\ rd.k <= Len(rd.folders)
    /\ rd' = [rd EXCEPT !.pc = "enter",
                        !.stack = <<[id |-> rd.folders[rd.k].id, visited |-> {}]>>]
    /\ UNCHANGED <<mainVars, bat, mt>>

\* calculatePath(folderId, visited) from its entry to its return or to the
\* recursive call for the parent.
PathEnter ==
    /\ rd.pc = "enter"
    /\ LET n == Len(rd.stack)
           top == rd.stack[n]
           pop == SubSeq(rd.stack, 1, n - 1)
       IN IF Revisited(top) \/ top.id \notin DOMAIN rd.map
          THEN rd' = [rd EXCEPT !.pc = "leave", !.ret = Slash, !.stack = pop]
          ELSE LET folder == rd.map[top.id]
               IN IF folder.full_path # NoPath
                  THEN rd' = [rd EXCEPT !.pc = "leave", !.ret = folder.full_path,
                                        !.stack = pop]
                  ELSE IF folder.parent = NoParent \/ folder.parent = DriveRoot
                  THEN rd' = [rd EXCEPT !.pc = "leave", !.stack = pop,
                                        !.ret = RootPath(folder.name),
                                        !.map[top.id].full_path = RootPath(folder.name)]
                  ELSE rd' = [rd EXCEPT
                                 !.stack = Append(
                                     [rd.stack EXCEPT ![n].visited = @ \cup {top.id}],
                                     [id |-> folder.parent,
                                      visited |-> top.visited \cup {top.id}])]
    /\ UNCHANGED <<mainVars, bat, mt>>

\* A call of calculatePath returned: to the forEach, or to the call that
\* asked for its parent's path, which sets its own full_path and returns it.
PathLeave ==
    /\ rd.pc = "leave"
    /\ LET n == Len(rd.stack)
       IN IF n = 0
          THEN rd' = [rd EXCEPT !.pc = "each", !.k = @ + 1]
          ELSE LET path == JoinPath(rd.ret, rd.map[rd.stack[n].id].name)
               IN rd' = [rd EXCEPT !.stack = SubSeq(rd.stack, 1, n - 1),
                                   !.ret = path,
                                   !.map[rd.stack[n].id].full_path = path]
    /\ UNCHANGED <<mainVars, bat, mt>>

\* return Array.from(folderMap.values())
PathsReturn ==
    /\ rd.pc = "each"
    /\ rd.k > Len(rd.folders)
    /\ rd' = [rd EXCEPT !.pc = "done",
                        !.out = [i \in 1..Len(rd.order) |-> rd.map[rd.order[i]]]]
    /\ UNCHANGED <<mainVars, bat, mt>>

NextPaths == PathsMap \/ PathsEach \/ PathEnter \/ PathLeave \/ PathsReturn

SpecPaths == InitPaths /\ [][NextPaths]_vars

\* calculateFolderPaths is synchronous: once called it runs on.
SpecPathsLive == SpecPaths /\ WF_vars(NextPaths)

\* ---------------- GoogleDriveSyncService: the paged listings of the reader
\* One call of getAllSharedDrives, getManagersFromDrive or getFoldersFromDrive
\* over a provider that delivers a listing in pages of at most PageSize items
\* and may deliver the last item of a page again on the next page.
PageSize == 2
ReaderOps == {"drives", "managers", "folders"}

\* The remote folder trees of the drive: every folder of FolderIds under the
\* drive or under another folder, trashed or not, with no cycle.
RECURSIVE Climbs(_, _, _)
Climbs(par, id, n) ==
    IF par[id] = DriveRoot THEN TRUE
    ELSE IF n = 0 THEN FALSE
    ELSE Climbs(par, par[id], n - 1)
FolderTrees ==
    {t \in [FolderIds -> [parent : FolderIds \cup {DriveRoot}, trashed : BOOLEAN]] :
        \A id \in FolderIds :
            Climbs([f \in FolderIds |-> t[f].parent], id, Cardinality(FolderIds))}

\* q: '<parent>' in parents and mimeType = folder and trashed = false
Children(tree, parent) ==
    SetToSeq({[id |-> f, parent |-> parent] :
                 f \in {g \in FolderIds :
                           /\ ~tree[g].trashed
                           /\ \/ tree[g].parent = parent
                              \/ "also" \in DOMAIN tree[g] /\ tree[g].also = parent}})

\* The permission entries of the drive whose managers are read: organizers,
\* a file organizer and entries of other roles.
ReaderPerms ==
    UNION {Perms0(d) : d \in DriveIds}
    \cup {NewPerm, [id |-> "p8", emailAddress |-> "w", role |-> "writer"]}

\* What one listing has to deliver in all.
ListingOf(op, tree) ==
    CASE op = "drives" -> SetToSeq(DriveIds)
      [] op = "managers" -> SetToSeq(ReaderPerms)
      [] OTHER -> Children(tree, DriveRoot)

\* The items of the next page of a listing and what is left after it.
PageLen(rest) == IF Len(rest) > PageSize THEN PageSize ELSE Len(rest)
NextPage(rest, buf, dup) ==
    LET fresh == SubSeq(rest, 1, PageLen(rest))
    IN IF dup /\ buf # <<>> /\ fresh # <<>> THEN <<buf[Len(buf)]>> \o fresh ELSE fresh
AfterPage(rest) == SubSeq(rest, PageLen(rest) + 1, Len(rest))

\* The filter left out: every permission of the page is kept.
IsManagerAny(p) == TRUE

\* getManagersFromDrive keeps the organizer and fileOrganizer permissions of a
\* page; the other listings keep the page as it is.
IsManager(p) == p.role \in OrganizerRoles
KeptOfPage(op, page) == IF op = "managers" THEN SelectSeq(page, IsManager) ELSE page

InitReader ==
    /\ InitOver([d \in {} |-> EmptyDoc], BackendFolders, {})
    /\ bat = IdleBat
    /\ mt = IdleMt
    /\ \E op \in ReaderOps, tree \in FolderTrees, dup \in BOOLEAN :
          /\ op # "folders" => (tree = CHOOSE t \in FolderTrees : TRUE)
          /\ rd = [pc |-> "rootPage", op |-> op, tree |-> tree, dup |-> dup,
                   nfail |-> 0, requests |-> 0, pages |-> 0,
                   rest |-> ListingOf(op, tree), buf |-> <<>>, all |-> <<>>,
                   frames |-> <<>>, lost |-> FALSE,
                   folders |-> <<>>, map |-> FolderMapOf(<<>>), order |-> <<>>,
                   k |-> 1, stack |-> <<>>, ret |-> NoPath, out |-> <<>>]

\* A provider call of the reader may fail.
ReaderCanFail == rd.nfail < MaxFaults /\ ~rd.lost

\* The do-while of getAllSharedDrives / getManagersFromDrive / the root level
\* of getFoldersFromDrive: one page request. A failure goes to the catch of
\* the function, which logs and rethrows.
RootPage ==
    /\ rd.pc = "rootPage"
    /\ \/ LET buf2 == rd.buf \o KeptOfPage(rd.op, NextPage(rd.rest, rd.buf, rd.dup))
              rest2 == AfterPage(rd.rest)
              got == [rd EXCEPT !.requests = @ + 1, !.pages = @ + 1,
                                !.buf = buf2, !.rest = rest2]
          IN rd' = IF rest2 # <<>> THEN got
                   ELSE IF rd.op = "folders"
                   THEN [got EXCEPT !.pc = "sub", !.all = buf2,
                                    !.frames = <<[parents |-> buf2, idx |-> 1,
                                                  acc |-> <<>>]>>]
                   ELSE [got EXCEPT !.pc = "done", !.out = buf2]
       \/ /\ ReaderCanFail
          /\ rd' = [rd EXCEPT !.requests = @ + 1, !.nfail = @ + 1, !.pc = "raised"]
    /\ UNCHANGED <<mainVars, bat, mt>>

\* The nested calls of getSubfoldersRecursively that are kept. When the walk
\* nests deeper the outermost call is forgotten (lost): it is needed only
\* when every call inside it has returned. From then on the requests are no
\* longer counted and no provider call fails.
MaxDepth == 5

\* getSubfoldersRecursively: the loop reaches the next folder of parentFolders
\* and calls getDirectSubfolders for it.
SubStart ==
    /\ rd.pc = "sub"
    /\ LET top == rd.frames[Len(rd.frames)]
       IN /\ top.idx <= Len(top.parents)
          /\ rd' = [rd EXCEPT !.pc = "subPage", !.buf = <<>>,
                              !.rest = Children(rd.tree, top.parents[top.idx].id)]
    /\ UNCHANGED <<mainVars, bat, mt>>

\* getDirectSubfolders returned subs to getSubfoldersRecursively: they are
\* pushed, and when there are any the function calls itself for them.
SubListed(r, subs) ==
    LET n == Len(r.frames)
        pushed == [r.frames EXCEPT ![n].acc = @ \o subs]
    IN IF subs # <<>>
       THEN [r EXCEPT !.pc = "sub",
                      !.lost = @ \/ n >= MaxDepth,
                      !.frames = Append(IF n >= MaxDepth THEN Tail(pushed) ELSE pushed,
                                        [parents |-> subs, idx |-> 1, acc |-> <<>>])]
       ELSE [r EXCEPT !.pc = "sub", !.frames = [pushed EXCEPT ![n].idx = @ + 1]]

\* The do-while of getDirectSubfolders: one page request. A failure goes to
\* the catch of the function, which logs and returns [].
SubPage ==
    /\ rd.pc = "subPage"
    /\ \/ LET buf2 == rd.buf \o NextPage(rd.rest, rd.buf, rd.dup)
              rest2 == AfterPage(rd.rest)
              got == [rd EXCEPT !.requests = IF rd.lost THEN @ ELSE @ + 1,
                                !.pages = IF rd.lost THEN @ ELSE @ + 1,
                                !.buf = buf2, !.rest = rest2]
          IN rd' = IF rest2 # <<>> THEN got ELSE SubListed(got, buf2)
       \/ /\ ReaderCanFail
          /\ rd' = SubListed([rd EXCEPT !.requests = @ + 1, !.nfail = @ + 1], <<>>)
    /\ UNCHANGED <<mainVars, bat, mt>>

\* getSubfoldersRecursively returns allSubfolders: to the call that made it,
\* which pushes them and goes to its next folder, or to getFoldersFromDrive,
\* which calls calculateFolderPaths([...allFolders, ...allSubfolders]).
SubReturn ==
    /\ rd.pc = "sub"
    /\ LET n == Len(rd.frames)
           top == rd.frames[n]
       IN /\ top.idx > Len(top.parents)
          /\ rd' = IF n = 1
                   THEN [rd EXCEPT !.pc = "map", !.frames = <<>>,
                                   !.folders = rd.all \o top.acc]
                   ELSE [rd EXCEPT !.frames =
                            [SubSeq(rd.frames, 1, n - 1) EXCEPT
                                ![n - 1].acc = @ \o top.acc, ![n - 1].idx = @ + 1]]
    /\ UNCHANGED <<mainVars, bat, mt>>

NextReader ==
    \/ RootPage
    \/ SubStart
    \/ SubPage
    \/ SubReturn
    \/ NextPaths

SpecReader == InitReader /\ [][NextReader]_vars

\* getFoldersFromDrive over a provider whose child listings deliver one
\* folder under a second parent as well, which may be one of its descendants.
InitReaderTwice ==
    /\ InitOver([d \in {} |-> EmptyDoc], BackendFolders, {})
    /\ bat = IdleBat
    /\ mt = IdleMt
    /\ \E t \in FolderTrees, g \in FolderIds, dup \in BOOLEAN :
       \E p \in FolderIds \ {g} :
          LET tree == [f \in FolderIds |->
                          [parent |-> t[f].parent, trashed |-> t[f].trashed,
                           also |-> IF f = g THEN p ELSE NoParent]]
          IN rd = [pc |-> "rootPage", op |-> "folders", tree |-> tree, dup |-> dup,
                   nfail |-> 0, requests |-> 0, pages |-> 0,
                   rest |-> ListingOf("folders", tree), buf |-> <<>>, all |-> <<>>,
                   frames |-> <<>>, lost |-> FALSE,
                   folders |-> <<>>, map |-> FolderMapOf(<<>>), order |-> <<>>,
                   k |-> 1, stack |-> <<>>, ret |-> NoPath, out |-> <<>>]

SpecReaderTwice == InitReaderTwice /\ [][NextReader]_vars

\* A drive whose folders are a chain A / B / C, and the same drive with A
\* listed again under B.
WalkTrees ==
    LET chain == [f \in FolderIds |->
                     [parent |-> IF f = "A" THEN DriveRoot ELSE IF f = "B" THEN "A" ELSE "B",
                      trashed |-> FALSE, also |-> NoParent]]
    IN {chain, [chain EXCEPT !["A"].also = "B"]}

\* performFullSync line 585: the fetch of a drive calls getFoldersFromDrive,
\* and goes on (Fetch) when the call has returned or thrown.
FetchFolders(c) ==
    /\ run[c].pc = "fetch"
    /\ run[c].i <= Len(run[c].list)
    /\ rd.pc = "ready"
    /\ rd' = [pc |-> "rootPage", op |-> "folders", tree |-> rd.tree, dup |-> FALSE,
              nfail |-> 0, requests |-> 0, pages |-> 0,
              rest |-> ListingOf("folders", rd.tree), buf |-> <<>>, all |-> <<>>,
              frames |-> <<>>, lost |-> FALSE,
              folders |-> <<>>, map |-> FolderMapOf(<<>>), order |-> <<>>,
              k |-> 1, stack |-> <<>>, ret |-> NoPath, out |-> <<>>]
    /\ UNCHANGED <<mainVars, bat, mt>>

\* The sync service with the folder walk of every fetched drive followed call
\* by call.
InitWalk ==
    /\ \E r \in InitRemotes :
          InitOver([d \in {"D1", "D3"} |-> BackendDrive(d)], BackendFolders, r)
    /\ bat = IdleBat
    /\ mt = IdleMt
    /\ \E tree \in WalkTrees : rd = [pc |-> "ready", tree |-> tree]

NextWalk ==
    \/ Next
    \/ \E c \in Calls : FetchFolders(c)
    \/ NextReader

\* The event loop runs every continuation that is ready, and every provider
\* or store call returns or fails.
SpecWalk == InitWalk /\ [][NextWalk]_vars /\ WF_vars(NextWalk)

\* ------------------------- performMaintenance / cleanupSyncHistory
\* One call of cleanupSyncHistory(keepLast), made directly or by
\* performMaintenance, over a sync history of a few records with any run
\* dates, or of about Retention records with one run date each.
MaxHistory == 3
Retention == 50
DirectKeeps == {1, 2}
RunDates == {1, 2}

\* A SyncRun record of an earlier run.
OldRun(id, date) ==
    [sync_id |-> id, sync_date |-> date, status |-> "completed", drives_count |-> 0,
     folders_count |-> 0, managers_count |-> 0, errors |-> <<>>]

Histories ==
    UNION {{[id \in 1..n |-> OldRun(id, dates[id])] : dates \in [1..n -> RunDates]} :
              n \in 0..MaxHistory}
    \cup {[id \in 1..n |-> OldRun(id, id)] :
              n \in {Retention, Retention + 1, Retention + MaxHistory}}

\* The place of a record in orderBy('sync_date', 'desc'): the number of
\* records before it (equal dates are ordered by document id).
Rank(hist, k) ==
    Cardinality({j \in DOMAIN hist :
                    \/ hist[j].sync_date > hist[k].sync_date
                    \/ hist[j].sync_date = hist[k].sync_date /\ j > k})

\* The query without its offset: every record is in the snapshot.
OldRecordsAll(hist, keepLast) == DOMAIN hist

\* orderBy('sync_date', 'desc').offset(keepLast): the records after the first
\* keepLast.
OldRecords(hist, keepLast) == {k \in DOMAIN hist : Rank(hist, k) >= keepLast}

InitMaintenance ==
    /\ isRunning = FALSE
    /\ currentSyncId = NULL
    /\ syncStats = ResetStats
    /\ run = [c \in Calls |-> IdleRun]
    /\ tasks = {}
    /\ drives = [d \in {} |-> EmptyDoc]
    /\ folders = BackendFolders
    /\ managers = InitManagers
    /\ syncStatus = EmptyDoc
    /\ remote = {}
    /\ remotePerms = [d \in DriveIds |-> Perms0(d)]
    /\ fe = [pc |-> "idle", id |-> "none", managers |-> {}]
    /\ clock = 1
    /\ nextUuid = 1
    /\ nextGen = 1
    /\ faults = 0
    /\ creates = 0
    /\ bat = IdleBat
    /\ rd = IdleRd
    /\ \E hist \in Histories, via \in {"performMaintenance", "cleanupSyncHistory"} :
       \E keep \in (IF via = "performMaintenance" THEN {Retention} ELSE DirectKeeps) :
          /\ syncHistory = hist
          /\ mt = [pc |-> "query", via |-> via, keepLast |-> keep, snapshot |-> {},
                   failed |-> FALSE, ret |-> 0, result |-> EmptyDoc, before |-> hist]

\* const snapshot = await historyRef.get(); an empty snapshot returns 0, a
\* failure goes to the catch, which logs and returns 0.
CleanupQuery ==
    /\ mt.pc = "query"
    /\ \/ LET snapshot == OldRecords(syncHistory, mt.keepLast)
          IN mt' = IF snapshot = {} THEN [mt EXCEPT !.pc = "cleaned", !.ret = 0]
                   ELSE [mt EXCEPT !.pc = "commit", !.snapshot = snapshot]
       \/ mt' = [mt EXCEPT !.pc = "cleaned", !.ret = 0, !.failed = TRUE]
    /\ UNCHANGED <<mainVars, bat, rd>>

\* The batch of deletes: await batch.commit(), then return snapshot.size; a
\* failure goes to the catch, which logs and returns 0.
CleanupCommit ==
    /\ mt.pc = "commit"
    /\ \/ /\ syncHistory' = [k \in (DOMAIN syncHistory) \ mt.snapshot |-> syncHistory[k]]
          /\ mt' = [mt EXCEPT !.pc = "cleaned", !.ret = Cardinality(mt.snapshot)]
       \/ /\ mt' = [mt EXCEPT !.pc = "cleaned", !.ret = 0, !.failed = TRUE]
          /\ UNCHANGED syncHistory
    /\ UNCHANGED <<service, run, tasks, mirror, syncStatus, provider, fe, counters,
                   faults, creates, bat, rd>>

\* performMaintenance: cleanupSyncHistory(50) returned, the result is built.
MaintenanceReturn ==
    /\ mt.pc = "cleaned"
    /\ mt.via = "performMaintenance"
    /\ mt' = [mt EXCEPT !.pc = "returned",
                        !.result = [success |-> TRUE, cleaned_records |-> mt.ret]]
    /\ UNCHANGED <<mainVars, bat, rd>>

NextMaintenance ==
    \/ CleanupQuery
    \/ CleanupCommit
    \/ MaintenanceReturn

SpecMaintenance == InitMaintenance /\ [][NextMaintenance]_vars

\* ------------------------------------------------------------------ claims
\* An invocation that passed the guard and has not returned.
PastGuard(c) == run[c].pc \notin {"idle", "rejected", "returned"}
Ids(list) == {list[k].id : k \in 1..Len(list)}
\* No invocation was made after the return of c.
Latest(c) == \A b \in Calls : b > c => run[b].pc \in {"idle", "rejected"}

\* C1: at most one invocation of performSync / performIncrementalSync is past
\* the isRunning guard at any time; a call made while another invocation is
\* past the guard is rejected at once, a call made while none is proceeds, and
\* a rejected call is never run later.
C1_MutualExclusion ==
    /\ [](\A a, b \in Calls : PastGuard(a) /\ PastGuard(b) => a = b)
    /\ [][\A c \in Calls :
            /\ (run[c].pc = "idle" /\ run'[c].pc # "idle") =>
                  IF \E b \in Calls : PastGuard(b)
                  THEN run'[c].pc = "rejected"
                  ELSE run'[c].pc = "recordStart"
            /\ run[c].pc = "rejected" => run'[c] = run[c]]_vars

C1_Witness ==
    \E a, b \in Calls : PastGuard(a) /\ run[a].pc = "ssdCommit" /\ run[b].pc = "rejected"

\* C2: a call rejected by the guard changes nothing: the service fields, the
\* SyncRun and SyncStatus records, the mirror, the started store calls and the
\* locals of the running invocation are as before; and the run returns the id
\* generated at its own start.
C2_RejectedCallChangesNothing ==
    /\ [][\A c \in Calls :
            (run[c].pc = "idle" /\ run'[c].pc = "rejected") =>
                /\ UNCHANGED <<isRunning, currentSyncId, syncStats, drives, folders,
                               managers, syncHistory, syncStatus, tasks, nextUuid>>
                /\ \A b \in Calls \ {c} : run'[b] = run[b]]_vars
    /\ [](\A c \in Calls :
            run[c].pc = "returned" =>
                run[c].result.sync_id = run[c].id /\ run[c].id # NULL)

C2_Witness ==
    \E a, b \in Calls : run[a].pc = "returned" /\ run[b].pc = "rejected"
                        /\ run[a].result.sync_id = run[a].id

\* C3: when no invocation is past the guard (every run that passed it has
\* returned, whether completed, completed_with_errors or failed), isRunning is
\* false and currentSyncId is null; a returned run carries a terminal status.
C3_GuardReleased ==
    /\ (\A c \in Calls : ~PastGuard(c)) => (~isRunning /\ currentSyncId = NULL)
    /\ \A c \in Calls :
          run[c].pc = "returned" =>
              run[c].result.status \in {"completed", "completed_with_errors", "failed"}

\* A run failed and the next call was accepted.
C3_Witness ==
    \E a, b \in Calls : /\ run[a].pc = "returned" /\ run[a].result.status = "failed"
                        /\ a < b /\ PastGuard(b)

\* C4: when a full sync has returned with a status other than failed (and no
\* later run has started), the drive ids of the mirror are the drive ids of the
\* listing that run took, and its drives_count is the number of remote drives.
C4_FullSyncMirrorsListing ==
    \A c \in Calls :
        (run[c].pc = "returned" /\ run[c].kind = "full" /\ Latest(c)
         /\ run[c].result.status # "failed") =>
            /\ run[c].listed
            /\ DOMAIN drives = Ids(run[c].list)
            /\ Ids(run[c].list) = remote
            /\ run[c].result.stats.drives_count = Cardinality(remote)

\* Remote {D1, D2} over a mirror {D1, D3}: D3 deleted, D2 inserted.
C4_Witness ==
    \E c \in Calls :
        /\ run[c].pc = "returned" /\ run[c].kind = "full" /\ Latest(c)
        /\ run[c].result.status # "failed"
        /\ DOMAIN run[c].before[1] = {"D1", "D3"}
        /\ remote = {"D1", "D2"}
        /\ DOMAIN drives = {"D1", "D2"}
        /\ run[c].result.stats.drives_count = 2

\* The (email, role, permissionId) of a manager document or supplied manager.
Triple(m) == <<m.email, m.role, m.permissionId>>
\* The backend-synced manager records of a drive, by (email, role, permissionId).
BackendTriples(mgrs, driveId) == {Triple(mgrs[k]) : k \in ExistingManagers(mgrs, driveId)}
\* A document without its synced_at field.
Strip(doc) == [f \in (DOMAIN doc) \ {"synced_at"} |-> doc[f]]
StripAll(coll) == [k \in DOMAIN coll |-> Strip(coll[k])]
RECURSIVE SumSeq(_)
SumSeq(q) == IF q = <<>> THEN 0 ELSE Head(q) + SumSeq(Tail(q))
BatchEnded == bat.pc \in {"returned", "threw"}

\* C5: when syncSharedDrives ends, a delete has been issued for every drive id
\* of the mirror that is absent from the list passed in (one per id; the ids
\* of the list are not in the delete loop at all).
C5_EveryStaleIdDeleted ==
    (BatchEnded /\ bat.kind = "drives") => bat.delAdded = bat.nDel

\* C6: a drive or folder record of the mirror that carries
\* created_by_frontend = true and is still there after a step of a sync run or
\* of the create-drive route carries created_by_frontend = true and the same
\* created_at after it.
C6_FrontendFieldsPreserved ==
    [][/\ \A d \in (DOMAIN drives) \cap (DOMAIN drives') :
             IsFrontend(drives[d]) =>
                 IsFrontend(drives'[d]) /\ drives'[d].created_at = drives[d].created_at
       /\ \A f \in (DOMAIN folders) \cap (DOMAIN folders') :
             IsFrontend(folders[f]) =>
                 IsFrontend(folders'[f]) /\ folders'[f].created_at = folders[f].created_at]_vars

\* The record saveNewSharedDrive wrote during the run, after the run took its
\* snapshot, and that the run then upserted.
C6_Witness ==
    \E d \in DOMAIN drives :
        /\ IsFrontend(drives[d])
        /\ drives[d].created_at > 0
        /\ drives[d].synced_at < drives[d].created_at
        /\ run[1].pc = "returned" /\ d \in Ids(run[1].list)

\* C7: at the commit of syncManagersForDrive the backend-synced manager
\* records of the drive are exactly the supplied managers, by email, role and
\* permissionId.
C7_ManagersExactlySupplied ==
    [][\A t \in tasks :
          (t.kind = "managers" /\ t.st = "commit" /\ t \notin tasks'
           /\ nextGen' = nextGen + 1) =>
              BackendTriples(managers', t.drive) = {Triple(m) : m \in SeqToSet(t.ops)}]_vars

\* A full sync in which the fetch of drive X failed, and nothing else did,
\* has returned completed_with_errors with exactly one error entry, for X; the
\* records of all listed drives are in the mirror, and so are the folders and
\* the managers of the other listed drives.
FetchIsolated ==
    \A c \in Calls :
        (/\ run[c].pc = "returned" /\ run[c].kind = "full" /\ Latest(c)
         /\ faults = 1 /\ run[c].fstats.errors # <<>>) =>
            LET X == run[c].fstats.errors[1][2]
            IN /\ run[c].result.status = "completed_with_errors"
               /\ run[c].result.success
               /\ run[c].result.stats.errors = << <<"fetch", X>> >>
               /\ X \in Ids(run[c].list)
               /\ Ids(run[c].list) = DOMAIN drives
               /\ \A Y \in Ids(run[c].list) \ {X} :
                     /\ \A k \in 1..Len(RemoteFolders(Y)) :
                           LET f == RemoteFolders(Y)[k]
                           IN f.id \in DOMAIN folders /\ folders[f.id].driveId = Y
                     /\ BackendTriples(managers, Y) =
                           {<<p.emailAddress, p.role, p.id>> : p \in ManagersOf(remotePerms[Y])}

\* C8: when the fetch of the folders or managers of drive X fails in a full
\* sync, the fetch loop records one error entry for X and goes on with the
\* next drive; the run then returns completed_with_errors with that single
\* entry, the records of all listed drives (X included) and the folders and
\* managers of the other drives being in the mirror.
C8_FetchIsolation ==
    /\ [][\A c \in Calls :
            (run[c].pc = "fetch" /\ run'[c] # run[c] /\ faults' = faults + 1) =>
                /\ run'[c].pc = "fetch"
                /\ run'[c].i = run[c].i + 1
                /\ run'[c].fstats.errors =
                      Append(run[c].fstats.errors, <<"fetch", run[c].list[run[c].i].id>>)
                /\ syncStats' = syncStats]_vars
    /\ []FetchIsolated

\* The fetch of D1 failed; the folder and the manager of D2 are in the mirror.
C8_Witness ==
    \E c \in Calls :
        /\ run[c].pc = "returned" /\ run[c].kind = "full" /\ Latest(c)
        /\ faults = 1 /\ run[c].fstats.errors = << <<"fetch", "D1">> >>
        /\ Ids(run[c].list) = {"D1", "D2"}
        /\ run[c].before[2] = BackendFolders
        /\ "F2" \in DOMAIN folders
        /\ run[c].result.status = "completed_with_errors"

\* Two full syncs in a row, both completed.
TwoFullSyncs ==
    /\ \A c \in {1, 2} : /\ run[c].pc = "returned" /\ run[c].kind = "full"
                         /\ run[c].result.status = "completed"
    /\ \A c \in Calls : c > 2 => run[c].pc \in {"idle", "rejected"}

C10_AllOpsInBoundedBatches ==
    BatchEnded =>
        /\ bat.pc = "returned"
        /\ \A k \in 1..Len(bat.commits) : bat.commits[k] <= batchSize
        /\ SumSeq(bat.commits) = bat.nDel + bat.nUps

\* The parent of each id of a list (of its last record).
ParentOf(list) == [id \in DOMAIN FolderMapOf(list) |-> FolderMapOf(list)[id].parent]
\* The ids met on the parent chain of id within n steps, id itself left out.
RECURSIVE Ancestors(_, _, _)
Ancestors(par, id, n) ==
    IF n = 0 \/ id \notin DOMAIN par \/ par[id] \notin DOMAIN par THEN {}
    ELSE {par[id]} \cup Ancestors(par, par[id], n - 1)
OnCycle(par, id) == id \in Ancestors(par, id, Cardinality(DOMAIN par))
\* A chain that runs into a cycle.
IntoCycle(par, id) ==
    OnCycle(par, id) \/ \E a \in Ancestors(par, id, Cardinality(DOMAIN par)) : OnCycle(par, a)
\* Every parent is the drive, absent, or a folder of the list, and no chain
\* of parents comes back to where it started.
WellFormed(list) ==
    LET par == ParentOf(list)
    IN /\ \A id \in DOMAIN par : par[id] \in (DOMAIN par) \cup {DriveRoot, NoParent}
       /\ \A id \in DOMAIN par : ~OnCycle(par, id)
\* '/' and the names from the root-level ancestor down to id, joined by '/'.
RECURSIVE ChainPath(_, _)
ChainPath(par, id) ==
    IF par[id] \in {DriveRoot, NoParent} THEN <<"/", FolderName(id)>>
    ELSE ChainPath(par, par[id]) \o <<"/", FolderName(id)>>

\* C11: for every well-formed acyclic folder list, in every order and with
\* repeated records or not, calculateFolderPaths returns each folder once with
\* full_path = '/' and the names of its ancestor chain down to it joined by '/'.
C11_PathsOfAcyclicSets ==
    (rd.pc = "done" /\ WellFormed(rd.folders)) =>
        /\ {rd.out[i].id : i \in 1..Len(rd.out)} = DOMAIN ParentOf(rd.folders)
        /\ \A i \in 1..Len(rd.out) :
              rd.out[i].full_path = ChainPath(ParentOf(rd.folders), rd.out[i].id)

\* C under B under A under the drive, handed over deepest first.
C11_Witness ==
    /\ rd.pc = "done"
    /\ rd.folders = <<[id |-> "C", parent |-> "B"], [id |-> "B", parent |-> "A"],
                      [id |-> "A", parent |-> DriveRoot]>>
    /\ \E i \in 1..3 : rd.out[i].id = "C"
                       /\ rd.out[i].full_path = <<"/", "A", "/", "B", "/", "C">>
    /\ \E i \in 1..3 : rd.out[i].id = "B" /\ rd.out[i].full_path = <<"/", "A", "/", "B">>
    /\ \E i \in 1..3 : rd.out[i].id = "A" /\ rd.out[i].full_path = <<"/", "A">>

\* C12: calculateFolderPaths terminates on every folder list, cyclic or not:
\* the walk never goes deeper than the number of folders plus one, it ends,
\* and at the end every folder has a path that starts with '/' and ends with
\* its own name; a folder whose chain runs into a cycle has the path of the
\* walk truncated to '/' where the cycle was detected (A and B parents of each
\* other, A first: //B/A and //B).
C12_PathsTerminate ==
    /\ [](rd.pc \in {"each", "enter", "leave", "done"} =>
             Len(rd.stack) <= Cardinality(DOMAIN rd.map) + 1)
    /\ <>(rd.pc = "done")
    /\ [](rd.pc = "done" =>
             /\ \A i \in 1..Len(rd.out) :
                   LET path == rd.out[i].full_path
                   IN /\ path # NoPath
                      /\ path[1] = "/"
                      /\ path[Len(path)] = rd.out[i].name
                      /\ IntoCycle(ParentOf(rd.folders), rd.out[i].id) =>
                            SubSeq(path, 1, 2) = <<"/", "/">>
             /\ rd.folders = <<[id |-> "A", parent |-> "B"], [id |-> "B", parent |-> "A"]>>
                   => rd.out = <<[id |-> "A", name |-> "A", parent |-> "B",
                                  full_path |-> <<"/", "/", "B", "/", "A">>],
                                 [id |-> "B", name |-> "B", parent |-> "A",
                                  full_path |-> <<"/", "/", "B">>]>>)

C12_Witness ==
    /\ rd.pc = "done"
    /\ rd.folders = <<[id |-> "A", parent |-> "B"], [id |-> "B", parent |-> "A"]>>
    /\ rd.out[1].full_path = <<"/", "/", "B", "/", "A">>

\* What performFullSync returns over a provider state: every remote drive with
\* its folders and its managers.
FullFetch(rem, perms) ==
    LET ids == SetToSeq(rem)
    IN [k \in 1..Len(ids) |->
           [id |-> ids[k], name |-> DriveName(ids[k]), folders |-> RemoteFolders(ids[k]),
            managers |-> SetToSeq(ManagersOf(perms[ids[k]]))]]
\* The folders collection after the folder upserts of the listed drives.
RECURSIVE FoldersAfter(_, _, _)
FoldersAfter(coll, list, now) ==
    IF list = <<>> THEN coll
    ELSE LET d == Head(list)
             ops == [k \in 1..Len(d.folders) |->
                       [op |-> "set", id |-> d.folders[k].id,
                        data |-> FolderData(d.id, d.folders[k],
                                            IF d.folders[k].id \in DOMAIN coll
                                            THEN coll[d.folders[k].id] ELSE EmptyDoc, now)]]
         IN FoldersAfter(ApplyOps(coll, ops), Tail(list), now)
\* The manager documents (ids apart) after the replacement of the managers of
\* the listed drives.
ManagerDocsAfter(mgrs, list, now) ==
    {mgrs[k] : k \in {j \in DOMAIN mgrs :
                         ~(mgrs[j].synced_by_backend /\ mgrs[j].driveId \in Ids(list))}}
    \cup UNION {{ManagerDoc(list[i].id, list[i].name, list[i].managers[k], now) :
                    k \in 1..Len(list[i].managers)} : i \in 1..Len(list)}
\* A run that fetches everything: performSync, or performIncrementalSync([]).
FetchesAll(c) ==
    run[c].kind = "full" \/ (run[c].kind = "incr" /\ run[c].arg = <<>>)

\* C13: a run of performIncrementalSync([]) and a run of performSync over the
\* same provider and mirror state fetch the same data, all remote drives each
\* with its folders and managers, and leave the same drives, folders and
\* managers in the mirror: in both cases the outcome of applying that fetch to
\* the mirror the run started from.
C13_IncrementalEmptyIsFull ==
    \A c \in Calls :
        (run[c].pc = "returned" /\ FetchesAll(c) /\ Latest(c) /\ faults = 0) =>
            /\ run[c].list = FullFetch(remote, remotePerms)
            /\ drives = ApplyOps(run[c].before[1],
                                 DriveOps(run[c].before[1], run[c].list, clock))
            /\ folders = FoldersAfter(run[c].before[2], run[c].list, clock)
            /\ {managers[k] : k \in DOMAIN managers} =
                  ManagerDocsAfter(run[c].before[3], run[c].list, clock)
            /\ run[c].result.stats.drives_count = Len(run[c].list)

\* performIncrementalSync([]) over remote {D1, D2} and a mirror {D1, D3}.
C13_Witness ==
    \E c \in Calls :
        /\ run[c].pc = "returned" /\ run[c].kind = "incr" /\ run[c].arg = <<>>
        /\ Latest(c) /\ faults = 0
        /\ remote = {"D1", "D2"}
        /\ DOMAIN run[c].before[1] = {"D1", "D3"}
        /\ DOMAIN drives = {"D1", "D2"}
        /\ "F2" \in DOMAIN folders

\* The entries of an error list that a per-drive guard recorded.
PerDrive(errs) == \A k \in 1..Len(errs) : errs[k][1] \in {"fetch", "apply"}

\* C14: a returned run is completed exactly when its error list is empty,
\* completed_with_errors exactly when the list is non-empty and holds per-drive
\* errors only, and failed exactly when an exception reached the catch block,
\* whose message is then the last entry, after the errors recorded before; the
\* result has success = false only for failed and carries the id generated at
\* the start of the run and the terminal status.
C14_TerminalStatusAndResult ==
    /\ [](\A c \in Calls :
            run[c].pc = "returned" =>
                LET res == run[c].result
                    errs == res.stats.errors
                IN /\ res.status \in {"completed", "completed_with_errors", "failed"}
                   /\ res.status = run[c].status
                   /\ res.status = "completed" <=> errs = <<>>
                   /\ res.status = "completed_with_errors" <=> (errs # <<>> /\ PerDrive(errs))
                   /\ res.status = "failed" <=>
                         (/\ errs # <<>>
                          /\ errs[Len(errs)][1] = "critical"
                          /\ PerDrive(SubSeq(errs, 1, Len(errs) - 1)))
                   /\ res.success <=> res.status # "failed"
                   /\ res.sync_id = run[c].id
                   /\ res.sync_id # NULL)
    /\ [][\A c \in Calls :
            (run[c].pc # "catchComplete" /\ run'[c].pc = "catchComplete") =>
                /\ Len(syncStats'.errors) = Len(syncStats.errors) + 1
                /\ SubSeq(syncStats'.errors, 1, Len(syncStats.errors)) = syncStats.errors
                /\ syncStats'.errors[Len(syncStats'.errors)][1] = "critical"]_vars

\* One run of each terminal status is not in one behaviour of two calls; the
\* case shown is a failed run whose list holds a per-drive error and then the
\* message of the exception.
C14_Witness ==
    \E c \in Calls :
        /\ run[c].pc = "returned" /\ run[c].result.status = "failed"
        /\ ~run[c].result.success
        /\ Len(run[c].result.stats.errors) = 2
        /\ run[c].result.stats.errors[1][1] = "fetch"

\* The positions of an invocation in the model of the code.
RunPcs == {"idle", "rejected", "recordStart", "statusRunning", "probe", "list", "fetch",
           "incrFetch", "progress", "ssdRead", "ssdCommit", "apply", "applyWait",
           "applyProgress", "complete", "statusFinal", "catchComplete", "catchStatus",
           "returned"}

\* C15: an invocation past the guard never rejects: whatever call of the
\* provider or of the store fails, the failure of the failure record or of the
\* status write included, the invocation goes on inside performSync /
\* performIncrementalSync and ends by returning a result; a result returned
\* after an escaped exception has success = false and status failed; the only
\* call that throws is the one the guard rejected, before it did anything.
C15_NeverRejectsPastGuard ==
    /\ [](\A c \in Calls : run[c].pc \in RunPcs)
    /\ [][\A c \in Calls :
            (PastGuard(c) /\ run'[c] # run[c] /\ faults' = faults + 1) =>
                run'[c].pc \in RunPcs \ {"idle", "rejected"}]_vars
    /\ [][\A c \in Calls : run'[c].pc = "rejected" => ~PastGuard(c)]_vars
    /\ [](\A c \in Calls :
            (run[c].pc = "returned" /\ ~PerDrive(run[c].result.stats.errors)) =>
                (~run[c].result.success /\ run[c].result.status = "failed"))
    /\ \A c \in Calls : [](PastGuard(c) => <>(run[c].pc = "returned"))

\* The write of the failure record failed, and the run returned its result.
C15_Witness ==
    \E c \in Calls :
        /\ run[c].pc = "returned" /\ run[c].result.status = "failed"
        /\ ~run[c].result.success
        /\ faults = MaxFaults + 1
        /\ run[c].id \in DOMAIN syncHistory
        /\ syncHistory[run[c].id].status = "running"

\* C16: after a run returned with a terminal status that its status write put
\* into the SyncStatus 'current' record, the record holds a last_sync set by
\* that run and no current_sync_id.
C16_TerminalStatusClearsCurrent ==
    \A c \in Calls :
        (/\ run[c].pc = "returned" /\ Latest(c)
         /\ "status" \in DOMAIN syncStatus
         /\ syncStatus.status = run[c].result.status) =>
            /\ "last_sync" \in DOMAIN syncStatus
            /\ syncStatus.last_sync = clock
            /\ "current_sync_id" \in DOMAIN syncStatus => syncStatus.current_sync_id = NULL

\* The failures that end a run before anything was listed.
FatalEarly == {"recordSyncStart", "connectivity", "listDrives"}
\* An error entry of a run says that recording its start, the connectivity
\* probe or the drive listing failed.
FailedEarly(c) ==
    \E k \in 1..Len(run[c].result.stats.errors) :
        /\ run[c].result.stats.errors[k][1] = "critical"
        /\ run[c].result.stats.errors[k][2] \in FatalEarly
\* No store call of an earlier run was left behind by a rejected Promise.all.
NoneLeftBehind(c) ==
    \A b \in Calls :
        (b < c /\ run[b].pc = "returned") =>
            \A k \in 1..Len(run[b].result.stats.errors) :
                run[b].result.stats.errors[k][1] # "apply"

\* C17: a run in which recording the start, the connectivity probe or the
\* drive listing failed returns failed, with that failure as its only error,
\* and the drives, folders and managers of the mirror are as they were when
\* the run started.
C17_FatalErrorsLeaveMirror ==
    \A c \in Calls :
        (run[c].pc = "returned" /\ Latest(c) /\ NoneLeftBehind(c) /\ FailedEarly(c)) =>
            /\ run[c].result.status = "failed"
            /\ Len(run[c].result.stats.errors) = 1
            /\ <<drives, folders, managers>> = run[c].before

\* The listing failed over a mirror that holds a drive the provider lacks.
C17_Witness ==
    \E c \in Calls :
        /\ run[c].pc = "returned" /\ Latest(c) /\ run[c].kind = "full"
        /\ run[c].result.stats.errors = << <<"critical", "listDrives">> >>
        /\ "D3" \in DOMAIN drives
        /\ <<drives, folders, managers>> = run[c].before

\* The folders of a remote tree that a walk from the drive root reaches:
\* not trashed, under the drive or under a reachable folder.
RECURSIVE Reaches(_, _, _)
Reaches(tree, id, n) ==
    /\ ~tree[id].trashed
    /\ \/ tree[id].parent = DriveRoot
       \/ n > 0 /\ Reaches(tree, tree[id].parent, n - 1)
Reachable(tree) == {id \in FolderIds : Reaches(tree, id, Cardinality(FolderIds))}
ReaderReturned == rd.pc = "done"

\* C18: when no provider call fails, getFoldersFromDrive returns exactly the
\* non-trashed folders reachable from the drive root, at any depth, each id
\* once, with its parent and its path, also when the pages of a listing
\* deliver a folder more than once.
C18_FolderListingComplete ==
    (ReaderReturned /\ rd.op = "folders" /\ rd.nfail = 0) =>
        /\ {rd.out[i].id : i \in 1..Len(rd.out)} = Reachable(rd.tree)
        /\ Len(rd.out) = Cardinality(Reachable(rd.tree))
        /\ \A i \in 1..Len(rd.out) :
              /\ rd.out[i].parent = rd.tree[rd.out[i].id].parent
              /\ rd.out[i].full_path =
                    ChainPath([f \in FolderIds |-> rd.tree[f].parent], rd.out[i].id)

\* Three folders in a chain under the drive, with a folder delivered twice.
C18_Witness ==
    /\ ReaderReturned /\ rd.op = "folders" /\ rd.nfail = 0
    /\ Cardinality(Reachable(rd.tree)) = 3
    /\ \E f \in FolderIds : rd.tree[f].parent # DriveRoot /\ rd.tree[rd.tree[f].parent].parent # DriveRoot
    /\ Len(rd.out) = 3

\* Two folders under the drive on two pages, the first delivered again on the
\* second page.
C18_WitnessRepeated ==
    /\ ReaderReturned /\ rd.op = "folders" /\ rd.nfail = 0 /\ rd.dup
    /\ Len(rd.folders) > Len(rd.out)
    /\ Len(rd.out) = 3

\* C19: a call of the reader that returns a list had no provider call fail:
\* every failure of a page request makes getFoldersFromDrive /
\* getManagersFromDrive raise.
C19_ReaderRaisesOnError ==
    ReaderReturned => rd.nfail = 0

\* C20: a listing is failed by a page request only after that request was
\* made again: when the reader raises, more requests were made than pages
\* received plus one.
C20_RateLimitRetried ==
    rd.pc = "raised" => rd.requests > rd.pages + 1

\* Every manager record of the mirror has an organizer-class role.
ManagerRolesInMirror ==
    \A k \in DOMAIN managers : managers[k].role \in OrganizerRoles

\* C21: getManagersFromDrive returns, over all the pages of the permission
\* listing, exactly the permissions whose role is organizer or fileOrganizer
\* (every such entry, no entry of another role), after as many page requests
\* as the listing has pages; and no manager record of the mirror has another
\* role.
C21_ManagersAreOrganizers ==
    /\ (ReaderReturned /\ rd.op = "managers") =>
          /\ SeqToSet(rd.out) = {p \in ReaderPerms : p.role \in OrganizerRoles}
          /\ rd.rest = <<>>
          /\ rd.pages * PageSize >= Cardinality(ReaderPerms)
    /\ ManagerRolesInMirror

\* The listing took more than one page and held entries of other roles.
C21_Witness ==
    /\ ReaderReturned /\ rd.op = "managers"
    /\ rd.pages > 1
    /\ Len(rd.out) < Cardinality(ReaderPerms)
    /\ \E p \in SeqToSet(rd.out) : p.role = "fileOrganizer"

\* The SyncRun records whose status is running.
RunningRecords == {k \in DOMAIN syncHistory : syncHistory[k].status = "running"}

\* C22: at any time at most one SyncRun record of the sync history has the
\* status running, whatever runs were made and whichever of their progress,
\* completion or status writes failed.
C22_OneRunningRecord == Cardinality(RunningRecords) <= 1

\* The call of cleanupSyncHistory has ended.
Cleaned == mt.pc \in {"cleaned", "returned"}
Larger(a, b) == IF a > b THEN a ELSE b

RunStates == {"running", "completed", "completed_with_errors", "failed"}

\* C24: the status of every SyncRun record is one of running, completed,
\* completed_with_errors and failed; a step changes it only from running, and
\* only to one of the three terminal values.
C24_RecordFollowsRunStates ==
    /\ [](\A k \in DOMAIN syncHistory : syncHistory[k].status \in RunStates)
    /\ [][\A k \in DOMAIN syncHistory :
            syncHistory'[k].status # syncHistory[k].status =>
                /\ syncHistory[k].status = "running"
                /\ syncHistory'[k].status \in RunStates \ {"running"}]_vars

\* The place of drive X in the list of a run.
IndexOf(list, X) == CHOOSE k \in 1..Len(list) : list[k].id = X
\* The folders and the managers a run fetched for drive k of its list are in
\* the mirror.
Applied(list, k) ==
    /\ \A j \in 1..Len(list[k].folders) :
          LET f == list[k].folders[j]
          IN f.id \in DOMAIN folders /\ folders[f.id].driveId = list[k].id
    /\ BackendTriples(managers, list[k].id) =
          {<<m.emailAddress, m.role, m.id>> : m \in SeqToSet(list[k].managers)}

\* A run in which the store call of drive X failed in the apply phase, and
\* nothing else did, has returned completed_with_errors with one error entry,
\* for X, and the folders and managers of every later drive are in the mirror.
ApplyIsolated ==
    \A c \in Calls :
        (/\ run[c].pc = "returned" /\ Latest(c) /\ faults = 1
         /\ Len(run[c].result.stats.errors) > 0
         /\ run[c].result.stats.errors[1][1] = "apply") =>
            LET X == run[c].result.stats.errors[1][2]
            IN /\ run[c].result.status = "completed_with_errors"
               /\ run[c].result.success
               /\ run[c].result.stats.errors = << <<"apply", X>> >>
               /\ \A k \in 1..Len(run[c].list) :
                     k > IndexOf(run[c].list, X) => Applied(run[c].list, k)

\* C25: when syncFoldersForDrive or syncManagersForDrive fails for a drive in
\* the apply phase, the loop appends one error entry for that drive and goes
\* on with the next drive (or to the completion of the run); the run returns
\* completed_with_errors, not failed, and the folders and managers of all
\* later drives are written.
C25_ApplyIsolation ==
    /\ [][\A c \in Calls :
            (run[c].pc = "applyWait" /\ run'[c] # run[c]
             /\ \E t \in Awaited(c) : t.st = "failed") =>
                /\ syncStats'.errors =
                      Append(syncStats.errors, <<"apply", run[c].list[run[c].i].id>>)
                /\ run'[c].pc \in {"apply", "complete"}
                /\ run'[c].pc = "apply" => run'[c].i = run[c].i + 1]_vars
    /\ []ApplyIsolated

\* A store call of D1 failed; the folder and the manager of D2,
\* the next drive, are in the mirror.
C25_Witness ==
    \E c \in Calls :
        /\ run[c].pc = "returned" /\ Latest(c) /\ faults = 1
        /\ run[c].result.stats.errors = << <<"apply", "D1">> >>
        /\ run[c].result.status = "completed_with_errors"
        /\ Len(run[c].list) = 2 /\ run[c].list[2].id = "D2"
        /\ run[c].before[2] = BackendFolders
        /\ "F2" \in DOMAIN folders
        /\ \E k \in DOMAIN managers : managers[k].driveId = "D2" /\ managers[k].synced_at > 0

\* A run of performIncrementalSync over a non-empty id list.
Incremental(c) == run[c].kind = "incr" /\ run[c].arg # <<>>
\* The listed drives whose fetch failed, by the error entries.
FetchFailed(errs) == {errs[k][2] : k \in {j \in 1..Len(errs) : errs[j][1] = "fetch"}}
AllFetch(errs) == \A k \in 1..Len(errs) : errs[k][1] = "fetch"

\* An incremental run over listed drives whose only errors are fetch errors
\* has returned with one entry per failed drive, has fetched and applied the
\* other listed drives and no other drive, and counts the fetched drives.
IncrementalIsolated ==
    \A c \in Calls :
        (/\ run[c].pc = "returned" /\ Incremental(c) /\ Latest(c)
         /\ AllFetch(run[c].result.stats.errors)) =>
            LET res == run[c].result
                errs == res.stats.errors
                list == run[c].list
            IN /\ res.success
               /\ res.status = IF errs = <<>> THEN "completed" ELSE "completed_with_errors"
               /\ Len(errs) = Cardinality(FetchFailed(errs))
               /\ Ids(list) = SeqToSet(run[c].arg) \ FetchFailed(errs)
               /\ Len(list) = Cardinality(Ids(list))
               /\ res.stats.drives_count = Len(list)
               /\ \A k \in 1..Len(list) :
                     /\ list[k].id \in DOMAIN drives
                     /\ list[k].folders = RemoteFolders(list[k].id)
                     /\ SeqToSet(list[k].managers) = ManagersOf(remotePerms[list[k].id])
                     /\ Applied(list, k)

\* C26: performIncrementalSync over a non-empty id list fetches the listed
\* drives and no other; when the fetch of a listed drive fails, the loop
\* appends one error entry for it, leaves drives_count as it is and goes on
\* with the next id; the run returns completed_with_errors, drives_count
\* being the number of drives fetched, and the drives fetched, with their
\* folders and managers, are in the mirror.
C26_IncrementalFetchIsolation ==
    /\ [][\A c \in Calls :
            (run[c].pc = "incrFetch" /\ run'[c] # run[c]
             /\ run'[c].list = run[c].list) =>
                /\ syncStats'.errors =
                      Append(syncStats.errors, <<"fetch", run[c].arg[run[c].i]>>)
                /\ syncStats'.drives_count = syncStats.drives_count
                /\ run'[c].pc \in {"incrFetch", "ssdRead"}
                /\ run'[c].i = run[c].i + 1]_vars
    /\ []IncrementalIsolated

\* The fetch of D1 failed; D2 was fetched and its folder is in the mirror.
C26_Witness ==
    \E c \in Calls :
        /\ run[c].pc = "returned" /\ Incremental(c) /\ Latest(c)
        /\ run[c].arg = <<"D1", "D2">>
        /\ run[c].result.stats.errors = << <<"fetch", "D1">> >>
        /\ run[c].result.status = "completed_with_errors"
        /\ run[c].result.stats.drives_count = 1
        /\ run[c].before[2] = BackendFolders
        /\ "F2" \in DOMAIN folders
        /\ "D2" \in DOMAIN drives

\* C27: the commit of syncManagersForDrive for drive d leaves every manager
\* record that is not flagged synced_by_backend, and every manager record of
\* another drive, in the collection and as it was.
C27_OtherManagersUntouched ==
    [][\A t \in tasks :
          (t.kind = "managers" /\ t.st = "commit" /\ managers' # managers
           /\ (t \notin tasks' \/ \E u \in tasks' : u = [t EXCEPT !.st = "done"])) =>
              \A k \in DOMAIN managers :
                  (~managers[k].synced_by_backend \/ managers[k].driveId # t.drive) =>
                      k \in DOMAIN managers' /\ managers'[k] = managers[k]]_vars

\* The managers of D1 were replaced: the old backend record is gone, the
\* record that is not flagged and the record of D2 are there.
C27_Witness ==
    /\ \E k \in DOMAIN managers : managers[k].driveId = "D1" /\ managers[k].synced_at > 0
    /\ <<0, "p0">> \notin DOMAIN managers
    /\ <<0, "px">> \in DOMAIN managers /\ ~managers[<<0, "px">>].synced_by_backend
    /\ <<0, "p3">> \in DOMAIN managers

C29_OneBatchBounded ==
    bat.kind \in {"managers", "cleanup"} =>
        /\ \A k \in 1..Len(bat.commits) : bat.commits[k] <= batchSize
        /\ (bat.pc = "returned" /\ bat.committed /\ bat.nDel + bat.nUps > batchSize) =>
              Len(bat.commits) > 1

\* The positions at which a run awaits updateSyncStatus, updateSyncProgress
\* or completeSyncRecord.
TelemetryPcs == {"statusRunning", "progress", "applyProgress", "complete", "statusFinal",
                 "catchComplete", "catchStatus"}
\* The run record after the telemetry write at its position has returned.
AfterTelemetry(r) ==
    CASE r.pc = "statusRunning" -> [r EXCEPT !.pc = FetchScope(r.kind, r.arg), !.i = 1]
      [] r.pc = "progress" -> [r EXCEPT !.pc = "ssdRead"]
      [] r.pc = "applyProgress" -> NextApply(r, r.i + 1)
      [] r.pc = "complete" ->
            [r EXCEPT !.pc = "statusFinal", !.status = TerminalStatus(syncStats.errors)]
      [] r.pc = "statusFinal" ->
            [r EXCEPT !.pc = "returned", !.result = Result(TRUE, r.status)]
      [] r.pc = "catchComplete" -> [r EXCEPT !.pc = "catchStatus", !.status = "failed"]
      [] OTHER -> [r EXCEPT !.pc = "returned", !.result = Result(FALSE, "failed")]

\* C30: when a write of updateSyncStatus, updateSyncProgress or
\* completeSyncRecord fails, the run goes on exactly as after a write that
\* succeeded: same next position, same terminal status and result, the error
\* list, the mirror and the started store calls as they were; and a run
\* whose completion write was the call that failed returns the status its
\* error list gives, with no entry for that failure.
C30_TelemetryBestEffort ==
    /\ [][\A c \in Calls :
            (run[c].pc \in TelemetryPcs /\ run'[c] # run[c] /\ faults' = faults + 1) =>
                /\ run'[c] = AfterTelemetry(run[c])
                /\ UNCHANGED <<syncStats, drives, folders, managers, tasks>>]_vars
    /\ [](\A c \in Calls :
            (/\ run[c].pc = "returned" /\ Latest(c) /\ faults = 1
             /\ run[c].id \in DOMAIN syncHistory
             /\ syncHistory[run[c].id].status \in {"running", "syncing_to_firestore"}) =>
                /\ run[c].result.success
                /\ run[c].result.status = TerminalStatus(run[c].result.stats.errors)
                /\ AllFetch(run[c].result.stats.errors)
                /\ FetchesAll(c) => run[c].result.stats.errors = <<>>)

\* The completion write of a full sync failed: its record still says
\* syncing_to_firestore, the run returned completed with no error.
C30_Witness ==
    \E c \in Calls :
        /\ run[c].pc = "returned" /\ run[c].kind = "full" /\ faults = 1
        /\ run[c].id \in DOMAIN syncHistory
        /\ syncHistory[run[c].id].status = "syncing_to_firestore"
        /\ run[c].result.status = "completed"
        /\ run[c].result.stats.errors = <<>>
        /\ DOMAIN drives = remote

\* The started store calls that have not settled.
InFlight == {t \in tasks : t.st \notin {"done", "failed"}}

\* C31: the store calls of one run that are in flight at any time are those
\* of one drive: the folder and manager writes of the next drive are started
\* only when both calls of the current drive have settled.
C31_OneDriveInFlight ==
    \A t, u \in InFlight : t.call = u.call => t.drive = u.drive

\* The positions of a run before its drive-level diff is committed.
BeforeDriveDiff == {"idle", "rejected", "recordStart", "statusRunning", "probe", "list",
                    "fetch", "incrFetch", "progress", "ssdRead", "ssdCommit"}
\* The drive-level diff of a run failed.
DriveDiffError(c) ==
    \E k \in 1..Len(run[c].result.stats.errors) :
        run[c].result.stats.errors[k] = <<"critical", "syncSharedDrives">>

\* C32: no folder or manager call of a run is started, and no folder or
\* manager record is written by it, before its syncSharedDrives has committed
\* the drive-level diff; when syncSharedDrives fails the run goes to its catch
\* block, returns failed, and the folders and managers of the mirror are as
\* they were when it started.
C32_DriveDiffFirst ==
    /\ [](\A t \in tasks : t.call \in Calls => run[t.call].pc \notin BeforeDriveDiff)
    /\ [][\A c \in Calls :
            /\ (run[c].pc \in BeforeDriveDiff /\ Latest(c) /\ tasks = {}) =>
                   UNCHANGED <<folders, managers>>
            /\ (run[c].pc \in {"ssdRead", "ssdCommit"} /\ faults' = faults + 1
                 /\ run'[c] # run[c]) =>
                   run'[c].pc = "catchComplete" /\ tasks' = tasks]_vars
    /\ [](\A c \in Calls :
            (run[c].pc = "returned" /\ Latest(c) /\ NoneLeftBehind(c)
             /\ DriveDiffError(c)) =>
                /\ run[c].result.status = "failed"
                /\ ~run[c].result.success
                /\ <<folders, managers>> = <<run[c].before[2], run[c].before[3]>>)

\* The commit of the drive-level diff failed over a provider with a drive
\* that has a folder and a manager the mirror lacks.
C32_Witness ==
    \E c \in Calls :
        /\ run[c].pc = "returned" /\ Latest(c) /\ DriveDiffError(c)
        /\ run[c].result.status = "failed"
        /\ "D1" \in Ids(run[c].list)
        /\ "F1" \notin DOMAIN folders
        /\ run[c].ops # <<>>
        /\ drives = run[c].before[1]

\* C33: the walk of getFoldersFromDrive is bounded by the folders of the
\* drive: the calls of getSubfoldersRecursively never nest deeper than the
\* number of folders, also when a folder is listed again among its own
\* descendants.
C33_WalkBounded ==
    "frames" \in DOMAIN rd => (~rd.lost /\ Len(rd.frames) <= Cardinality(FolderIds))

\* C34: every invocation past the guard reaches its return, and the guard,
\* once taken, is released again.
C34_EveryRunCompletes ==
    /\ \A c \in Calls : PastGuard(c) ~> (run[c].pc = "returned")
    /\ isRunning ~> ~isRunning

\* C35: while a run of performIncrementalSync over a non-empty id list is
\* under way, no step removes from the mirror a drive record whose id exists
\* at the provider: the drives not named in the list and the named drives
\* whose fetch failed keep their records.
C35_IncrementalKeepsDrives ==
    [][\A c \in Calls :
          (Incremental(c) /\ PastGuard(c)) =>
              \A d \in (DOMAIN drives) \cap remote : d \in DOMAIN drives']_vars

\* C36: when a run has returned its result, none of the store calls it
\* started is still under way.
C36_NoWriteOutlivesRun ==
    \A c \in Calls : run[c].pc = "returned" => \A t \in InFlight : t.call # c

\* C37: no step taken while a full sync is under way removes from the mirror
\* the record of a drive that exists at the provider and that
\* saveNewSharedDrive wrote after the run had recorded its start.
C37_CreatedDriveKept ==
    [][\A d \in (DOMAIN drives) \cap remote :
          (/\ run[1].kind = "full" /\ PastGuard(1)
           /\ IsFrontend(drives[d])
           /\ run[1].id \in DOMAIN syncHistory
           /\ drives[d].created_at > syncHistory[run[1].id].sync_date) =>
              d \in DOMAIN drives']_vars

\* C38: after a full sync in which the fetch of drive X failed, and nothing
\* else did, the mirror holds no synced_by_backend manager record of X, the
\* drive record of X was written by the run, and the folder records of X are
\* the ones the mirror held when the run was called, unchanged.
C38_FetchFailureEmptiesManagers ==
    \A c \in Calls :
        (/\ run[c].pc = "returned" /\ run[c].kind = "full" /\ Latest(c)
         /\ NoneLeftBehind(c)
         /\ faults = 1 /\ run[c].fstats.errors # <<>>) =>
            LET X == run[c].fstats.errors[1][2]
                before == run[c].before
            IN /\ \A k \in DOMAIN managers :
                     managers[k].driveId = X => ~managers[k].synced_by_backend
               /\ X \in DOMAIN drives
               /\ drives[X].name = DriveName(X)
               /\ drives[X].synced_by_backend
               /\ X \in DOMAIN before[1] => drives[X].synced_at > before[1][X].synced_at
               /\ \A f \in (DOMAIN folders) \cup DOMAIN before[2] :
                     (\/ f \in DOMAIN folders /\ folders[f].driveId = X
                      \/ f \in DOMAIN before[2] /\ before[2][f].driveId = X) =>
                         /\ f \in DOMAIN folders /\ f \in DOMAIN before[2]
                         /\ folders[f] = before[2][f]

\* The fetch of D1 failed in a full sync called over a mirror with a backend
\* manager and two folders of D1; the run has returned.
C38_Witness ==
    \E c \in Calls :
        /\ run[c].pc = "returned" /\ run[c].kind = "full" /\ Latest(c)
        /\ NoneLeftBehind(c)
        /\ faults = 1 /\ run[c].fstats.errors = << <<"fetch", "D1">> >>
        /\ \E k \in DOMAIN run[c].before[3] :
              run[c].before[3][k].driveId = "D1" /\ run[c].before[3][k].synced_by_backend
        /\ \E f \in DOMAIN run[c].before[2] : run[c].before[2][f].driveId = "D1"
        /\ "D1" \in DOMAIN run[c].before[1]

\* C39: a step that changes the drives collection leaves the folders and the
\* managers collection as they are, and the folder and manager records whose
\* driveId is a drive that is neither at the provider nor in the drives
\* collection are never changed or removed, by that run or by a later one.
C39_NoCascade ==
    [][/\ drives' # drives => (folders' = folders /\ managers' = managers)
       /\ \A d \in DriveIds \ remote :
             d \notin DOMAIN drives' =>
                /\ \A f \in DOMAIN folders :
                      folders[f].driveId = d =>
                          f \in DOMAIN folders' /\ folders'[f] = folders[f]
                /\ \A k \in DOMAIN managers :
                      managers[k].driveId = d =>
                          k \in DOMAIN managers' /\ managers'[k] = managers[k]]_vars

\* Drive D1 left the provider, its record was deleted by the first run, and
\* after the second run its folder and manager records are still in the
\* mirror.
C39_Witness ==
    /\ run[1].pc = "returned" /\ run[2].pc = "returned"
    /\ run[1].result.success /\ run[2].result.success
    /\ "D1" \in DOMAIN run[1].before[1]
    /\ "D1" \notin DOMAIN run[2].before[1]
    /\ "D1" \notin DOMAIN drives /\ "D1" \notin remote
    /\ \E f \in DOMAIN folders : folders[f].driveId = "D1"
    /\ \E k \in DOMAIN managers : managers[k].driveId = "D1" /\ managers[k].synced_by_backend

====
